---- MODULE Spec2Model ----
(***************************************************************************)
(* NuRadioMC event generation (NuRadioMC/EvtGen/generator.py): the         *)
(* generators that build the shower table and write_events_to_hdf5, which  *)
(* splits the table into hdf5 files by event group.                        *)
(*                                                                         *)
(* Conventions.  A table (a dict of equally long columns) is a sequence of *)
(* rows, a row being a record with one field per column.  Python indices   *)
(* are kept 0-based in the variables (start_index, stop_index, iFile); the *)
(* operators translate to the 1-based sequences of TLA+.  A file name is a *)
(* sequence of tokens: <<"base">> or <<"base", ".part", d1, d2, d3, d4>>.  *)
(* An optional argument is <<>> (None) or <<v>>.                            *)
(***************************************************************************)
EXTENDS Integers, Sequences, FiniteSets, TLC

\* ---------------------------------------------------------------- bounds
\* largest attribute n_events (number of simulated events) of a direct call
MaxEvents == 3
\* largest start_event_id
MaxStartId == 2
\* largest number of rows of a table handed directly to the writer
MaxRows == 3

\* ------------------------------------------------------ program constants
VERSION_MAJOR == 2
VERSION_MINOR == 2
HEADER == "all quantities are in the default NuRadioMC units"

\* ---------------------------------------------------------------- helpers
Min(a, b) == IF a <= b THEN a ELSE b

Range(s) == {s[i] : i \in 1..Len(s)}

\* s[a:b] of Python for 0 <= a, 0 <= b
PySlice(s, a, b) ==
    IF a >= Min(b, Len(s)) THEN <<>> ELSE SubSeq(s, a + 1, Min(b, Len(s)))

RECURSIVE SortedSeq(_)
\* the elements of a finite set of integers in increasing order
SortedSeq(S) ==
    IF S = {} THEN <<>>
    ELSE LET m == CHOOSE x \in S : \A y \in S : x <= y
         IN  <<m>> \o SortedSeq(S \ {m})

\* np.unique(column): the distinct values, sorted
Unique(col) == SortedSeq(Range(col))

\* the column data_sets["event_group_ids"] of a table
EventGroupIds(t) == [i \in 1..Len(t) |-> t[i].event_group_ids]

\* np.argwhere(col == v), squeezed: the 0-based positions of v, in order
ArgWhere(col, v) ==
    SortedSeq({i - 1 : i \in {j \in 1..Len(col) : col[j] = v}})

RECURSIVE Digits(_)
\* the decimal digits of n >= 0, most significant first
Digits(n) == IF n < 10 THEN <<n>> ELSE Append(Digits(n \div 10), n % 10)

RECURSIVE ZeroPad(_, _)
ZeroPad(d, w) == IF Len(d) >= w THEN d ELSE ZeroPad(<<0>> \o d, w)

\* "{:04}".format(n)
Format04(n) == ZeroPad(Digits(n), 4)

\* dict update: every key of g set in f
Update(f, g) ==
    [k \in (DOMAIN f) \cup (DOMAIN g) |-> IF k \in DOMAIN g THEN g[k] ELSE f[k]]

VARIABLES
    pc,                    \* position in the program
    gen,                   \* the arguments the generator was called with
    data_sets,             \* the table of a generator before the fiducial cut
    iE,                    \* the row the loop over data_sets is at (0-based)
    call,                  \* the arguments write_events_to_hdf5 was called with
    data_sets_fiducial,    \* the table handed to write_events_to_hdf5
    attributes,            \* the attributes dict (write adds start_event_id)
    n_events,              \* local of write_events_to_hdf5
    total_number_of_events,
    n_events_per_file,     \* local, after line 127 an integer
    iFile,
    evt_id_last_previous,
    start_index,
    n_events_total,
    files,                 \* the files written by the call, in order
    earlier,               \* the files each earlier call of the writer wrote
    random_numbers,        \* ARZ._random_numbers: shower type -> profile index
    requests,              \* the requests an ARZ instance has served, in order
    propagator_calls,      \* the calls of get_secondaries_array the loop over
                           \* the event groups has made, in order
    returned               \* what a function called on its own has returned

vars == <<pc, gen, data_sets, iE, call, data_sets_fiducial, attributes, n_events,
          total_number_of_events, n_events_per_file, iFile,
          evt_id_last_previous, start_index, n_events_total, files, earlier,
          random_numbers, requests, propagator_calls, returned>>

\* the state of the ARZ instance (SignalGen/ARZ/ARZ.py)
arz_state == <<random_numbers, requests>>

writer_locals == <<n_events, total_number_of_events, n_events_per_file, iFile,
                   evt_id_last_previous, start_index, n_events_total, files,
                   earlier>>

generator_locals == <<gen, data_sets, iE>>

\* ------------------------------------------------- write_events_to_hdf5
\* EvtIdsOfFile that claims one id for each shard
EvtIdsOfFile_OneEach(ids, i, K) == PySlice(Unique(ids), i, i + 1)

\* lines 136 and 182: the ids shard i claims by rank
EvtIdsOfFile(ids, i, K) == PySlice(Unique(ids), i * K, (i + 1) * K)

\* FileName with the number not padded
FileName_NotPadded(i, K, n, start_file_id) ==
    IF (i > 0) \/ (K < n)
    THEN <<"base", ".part">> \o Digits(i + start_file_id)
    ELSE <<"base">>

\* lines 141-142
FileName(i, K, n, start_file_id) ==
    IF (i > 0) \/ (K < n)
    THEN <<"base", ".part">> \o Format04(i + start_file_id)
    ELSE <<"base">>

\* StopIndex that stops after the first row of the last event group
StopIndex_FirstRow(ids, evt_id_last) ==
    LET tmp == ArgWhere(ids, evt_id_last)
    IN  tmp[1] + 1

\* lines 154-158
StopIndex(ids, evt_id_last) ==
    LET tmp == ArgWhere(ids, evt_id_last)
    IN  IF Len(tmp) = 1 THEN tmp[1] + 1 ELSE tmp[Len(tmp)] + 1

\* NEventsThisFile that forgets start_event_id in the last file
NEventsThisFile_NoStartId(i, n_next, total, evt_id_last, last_previous, start_event_id) ==
    IF i = 0 /\ n_next = 0 THEN total
    ELSE IF n_next = 0 THEN total - (last_previous + 1)
    ELSE IF i = 0 THEN evt_id_last - start_event_id + 1
    ELSE evt_id_last - last_previous

\* NEventsThisFile that tests for the first file before the only file
NEventsThisFile_FirstBeforeOnly(i, n_next, total, evt_id_last, last_previous, start_event_id) ==
    IF i = 0 THEN evt_id_last - start_event_id + 1
    ELSE IF n_next = 0 THEN total - (last_previous + 1) + start_event_id
    ELSE evt_id_last - last_previous

\* NEventsThisFile that leaves the first event out of the first file
NEventsThisFile_FirstOneLess(i, n_next, total, evt_id_last, last_previous, start_event_id) ==
    IF i = 0 /\ n_next = 0 THEN total
    ELSE IF n_next = 0 THEN total - (last_previous + 1) + start_event_id
    ELSE IF i = 0 THEN evt_id_last - start_event_id
    ELSE evt_id_last - last_previous

\* lines 182-191
NEventsThisFile(i, n_next, total, evt_id_last, last_previous, start_event_id) ==
    IF i = 0 /\ n_next = 0 THEN total
    ELSE IF n_next = 0 THEN total - (last_previous + 1) + start_event_id
    ELSE IF i = 0 THEN evt_id_last - start_event_id + 1
    ELSE evt_id_last - last_previous

\* FileAttrs that copies the run attributes after setting n_events
FileAttrs_AttributesLast(attrs, total, n_this_file) ==
    Update(Update(Update([VERSION_MAJOR |-> VERSION_MAJOR,
                          VERSION_MINOR |-> VERSION_MINOR,
                          header |-> HEADER],
                         [n_events |-> n_this_file]),
                  [total_number_of_events |-> total]),
           attrs)

\* lines 144-149 and 195: the attrs of the file, in the order they are set
FileAttrs(attrs, total, n_this_file) ==
    Update(Update(Update([VERSION_MAJOR |-> VERSION_MAJOR,
                          VERSION_MINOR |-> VERSION_MINOR,
                          header |-> HEADER],
                         attrs),
                  [total_number_of_events |-> total]),
           [n_events |-> n_this_file])

\* BreakAfterFile that never ends the loop
BreakAfterFile_Never(evt_id_last, n) == FALSE

\* lines 202-203
BreakAfterFile(evt_id_last, n) == evt_id_last = n

\* lines 124-127: the argument n_events_per_file, None standing for n_events
PerFile(arg, n) == IF arg = <<>> THEN n ELSE arg[1]

\* WriteStart that keeps the row reached by an earlier call
WriteStart_KeepsStartIndex ==
    /\ pc = "write"
    /\ attributes' = IF "start_event_id" \in DOMAIN attributes
                     THEN attributes
                     ELSE Update(attributes, [start_event_id |-> 0])
    /\ n_events' = attributes["n_events"]
    /\ total_number_of_events' = attributes["n_events"]
    /\ n_events_per_file' = PerFile(call.n_events_per_file,
                                    attributes["n_events"])
    /\ iFile' = -1
    /\ evt_id_last_previous' = 0
    /\ n_events_total' = 0
    /\ pc' = IF Len(data_sets_fiducial) = 0 THEN "crash" ELSE "loop"
    /\ UNCHANGED arz_state
    /\ UNCHANGED returned
    /\ UNCHANGED propagator_calls
    /\ UNCHANGED <<generator_locals, call, data_sets_fiducial, files, earlier,
                   start_index>>

\* lines 117-132; an empty table raises IndexError at line 129
WriteStart ==
    /\ pc = "write"
    /\ attributes' = IF "start_event_id" \in DOMAIN attributes
                     THEN attributes
                     ELSE Update(attributes, [start_event_id |-> 0])
    /\ n_events' = attributes["n_events"]
    /\ total_number_of_events' = attributes["n_events"]
    /\ n_events_per_file' = PerFile(call.n_events_per_file,
                                    attributes["n_events"])
    /\ iFile' = -1
    /\ evt_id_last_previous' = 0
    /\ start_index' = 0
    /\ n_events_total' = 0
    /\ pc' = IF Len(data_sets_fiducial) = 0 THEN "crash" ELSE "loop"
    /\ UNCHANGED arz_state
    /\ UNCHANGED returned
    /\ UNCHANGED propagator_calls
    /\ UNCHANGED <<generator_locals, call, data_sets_fiducial, files, earlier>>

\* lines 134-139: the shard claims no id, the loop ends
WriteNoMore ==
    /\ pc = "loop"
    /\ Len(EvtIdsOfFile(EventGroupIds(data_sets_fiducial), iFile + 1,
                        n_events_per_file)) = 0
    /\ iFile' = iFile + 1
    /\ pc' = "done"
    /\ UNCHANGED arz_state
    /\ UNCHANGED returned
    /\ UNCHANGED propagator_calls
    /\ UNCHANGED <<generator_locals, call, data_sets_fiducial, attributes,
                   n_events, total_number_of_events, n_events_per_file,
                   evt_id_last_previous, start_index, n_events_total, files,
                   earlier>>

\* lines 134-203: one pass of the loop that writes a file
WriteFile ==
    /\ pc = "loop"
    /\ LET ids == EventGroupIds(data_sets_fiducial)
           i == iFile + 1
           evt_ids_this_file == EvtIdsOfFile(ids, i, n_events_per_file)
           evt_ids_next_file == EvtIdsOfFile(ids, i + 1, n_events_per_file)
       IN  /\ Len(evt_ids_this_file) > 0
           /\ LET evt_id_last == evt_ids_this_file[Len(evt_ids_this_file)]
                  stop_index == StopIndex(ids, evt_id_last)
                  n_events_this_file ==
                      NEventsThisFile(i, Len(evt_ids_next_file),
                                      total_number_of_events, evt_id_last,
                                      evt_id_last_previous,
                                      attributes["start_event_id"])
              IN  /\ files' = Append(files,
                         [name |-> FileName(i, n_events_per_file, n_events,
                                            call.start_file_id),
                          attrs |-> FileAttrs(attributes,
                                              total_number_of_events,
                                              n_events_this_file),
                          start_index |-> start_index,
                          stop_index |-> stop_index])
                  /\ n_events_total' = n_events_total + n_events_this_file
                  /\ start_index' = stop_index
                  /\ evt_id_last_previous' = evt_id_last
                  /\ pc' = IF BreakAfterFile(evt_id_last, n_events)
                           THEN "done" ELSE "loop"
           /\ iFile' = i
    /\ UNCHANGED arz_state
    /\ UNCHANGED returned
    /\ UNCHANGED propagator_calls
    /\ UNCHANGED <<generator_locals, call, data_sets_fiducial, attributes,
                   n_events, total_number_of_events, n_events_per_file, earlier>>

\* ------------------------------------------- direct calls of the writer
RECURSIVE SortedSeqs(_, _)
\* the non-decreasing sequences over S of length <= n
SortedSeqs(S, n) ==
    IF n = 0 THEN {<<>>}
    ELSE LET shorter == SortedSeqs(S, n - 1)
         IN  shorter \cup
             {Append(s, x) : s \in {t \in shorter : Len(t) = n - 1},
                             x \in S}

IsSorted(s) == \A i \in 1..(Len(s) - 1) : s[i] <= s[i + 1]

\* the file ids a data set is started at
StartFileIds == {0, 12}

\* the attribute dicts of a direct call; start_event_id may be missing
CallAttributes ==
    {[n_events |-> n, start_event_id |-> s, Emin |-> 5] :
        n \in 1..MaxEvents, s \in 0..MaxStartId}
    \cup {[n_events |-> n, Emin |-> 5] : n \in 1..MaxEvents}

StartEventIdOf(a) ==
    IF "start_event_id" \in DOMAIN a THEN a["start_event_id"] ELSE 0

\* the tables of a direct call: not empty, ids non-decreasing as the
\* generators leave them, ids from 0 up to one past the simulated range
CallTables(a) ==
    LET idsets == {s \in SortedSeqs(0..(StartEventIdOf(a) + a["n_events"]), MaxRows) :
                       Len(s) > 0 /\ IsSorted(s)}
    IN  {[i \in 1..Len(s) |-> [event_group_ids |-> s[i]]] : s \in idsets}

\* the locals of write_events_to_hdf5 before the call
WriterIdle ==
    /\ n_events = 0
    /\ total_number_of_events = 0
    /\ n_events_per_file = 0
    /\ iFile = -1
    /\ evt_id_last_previous = 0
    /\ start_index = 0
    /\ n_events_total = 0
    /\ files = <<>>
    /\ earlier = <<>>

\* the propagator has not been called
PropagatorIdle == propagator_calls = <<>>

\* no ARZ instance is in use
ARZIdle ==
    /\ random_numbers = <<>>
    /\ requests = <<>>

Init ==
    /\ pc = "write"
    /\ gen = [name |-> "direct"]
    /\ data_sets = <<>>
    /\ iE = 0
    /\ \E a \in CallAttributes :
         /\ attributes = a
         /\ data_sets_fiducial \in CallTables(a)
         /\ \E k \in {<<>>} \cup {<<j>> : j \in 1..MaxEvents},
               f \in StartFileIds :
              call = [attributes |-> a, n_events_per_file |-> k,
                      start_file_id |-> f]
    /\ WriterIdle
    /\ PropagatorIdle
    /\ returned = <<>>
    /\ ARZIdle

Next == WriteStart \/ WriteNoMore \/ WriteFile

Spec == Init /\ [][Next]_vars

\* before the caller has chosen the arguments of write_events_to_hdf5
InitLive ==
    /\ pc = "call"
    /\ gen = [name |-> "direct"]
    /\ data_sets = <<>>
    /\ iE = 0
    /\ attributes = <<>>
    /\ data_sets_fiducial = <<>>
    /\ call = [attributes |-> <<>>, n_events_per_file |-> <<>>,
               start_file_id |-> 0]
    /\ WriterIdle
    /\ PropagatorIdle
    /\ returned = <<>>
    /\ ARZIdle

\* line 96: the caller calls write_events_to_hdf5 with the arguments of a
\* direct call
CallWriter ==
    /\ pc = "call"
    /\ \E a \in CallAttributes :
         /\ attributes' = a
         /\ data_sets_fiducial' \in CallTables(a)
         /\ \E k \in {<<>>} \cup {<<j>> : j \in 1..MaxEvents},
               f \in StartFileIds :
              call' = [attributes |-> a, n_events_per_file |-> k,
                       start_file_id |-> f]
    /\ pc' = "write"
    /\ UNCHANGED arz_state
    /\ UNCHANGED returned
    /\ UNCHANGED propagator_calls
    /\ UNCHANGED <<generator_locals, writer_locals>>

NextLive == CallWriter \/ Next

\* the program moves on: a step that leaves the call, the head of the
\* function or a pass of the loop changes pc or iFile
Advance ==
    /\ pc \in {"call", "write", "loop"}
    /\ pc' \in {"write", "loop", "done", "crash"}
    /\ iFile' \in {-1, iFile, iFile + 1}

\* the statements of the caller and of write_events_to_hdf5 run one after
\* the other until the function returns or raises: while the program has a
\* next statement, it takes it
SpecLive == InitLive /\ [][NextLive]_vars /\ WF_<<pc, iFile>>(Advance)

\* ------------------------------------------ repeated calls of the writer
\* the number of calls of write_events_to_hdf5 on the same arguments
MaxCalls == 2

\* The caller calls write_events_to_hdf5 again with the same objects: the
\* table, the attributes dict as the earlier call left it (line 122 may have
\* added start_event_id), n_events_per_file and start_file_id.  The locals of
\* the earlier call are gone; the model leaves their last values in the
\* variables, for lines 117-132 to overwrite.
WriteAgain ==
    /\ pc = "done"
    /\ gen.name = "direct"
    /\ Len(earlier) + 1 < MaxCalls
    /\ earlier' = Append(earlier, files)
    /\ files' = <<>>
    /\ pc' = "write"
    /\ UNCHANGED arz_state
    /\ UNCHANGED returned
    /\ UNCHANGED propagator_calls
    /\ UNCHANGED <<generator_locals, call, data_sets_fiducial, attributes,
                   n_events, total_number_of_events, n_events_per_file, iFile,
                   evt_id_last_previous, start_index, n_events_total>>

NextAgain == Next \/ WriteAgain

SpecAgain == Init /\ [][NextAgain]_vars

\* ------------------------------------------------------------ generators
\* generate_surface_muons and generate_eventlist_cylinder.  The call of
\* generate_vertex_positions (lines 721, 986) is represented by what it hands
\* back to the generator: the sampled vertex positions and the fiducial_* keys
\* of the attributes (for a box also the keys xmin .. zmax).  The sampled
\* quantities are small integers: lengths in units of which cspeed is a
\* multiple, angles in degrees, inelasticity as a numerator over
\* InelasticityDen and the column shower_energies in units of
\* 1/InelasticityDen of the energy unit.

\* largest n_events of a generator run
MaxGenEvents == 2
\* longest list of products the propagator returns for one lepton
MaxProducts == 2
\* the denominator of the sampled inelasticities
InelasticityDen == 4

\* np.nan, line 1119
NaN == -1
\* the speed of light in length units per time unit, line 54
cspeed == 3

Abs(x) == IF x < 0 THEN -x ELSE x

\* sin and cos of the sampled angles
SinDeg(a) == CASE a = 0 -> 0 [] a = 90 -> 1 [] a = 180 -> 0 [] a = 270 -> -1
CosDeg(a) == CASE a = 0 -> 1 [] a = 90 -> 0 [] a = 180 -> -1 [] a = 270 -> 0

\* (x ** 2 + y ** 2) ** 0.5 for the points of the model, lines 1073 and 1098
Norm(x, y) == CHOOSE r \in 0..(Abs(x) + Abs(y)) : r * r = x * x + y * y

RECURSIVE SeqsUpTo(_, _)
\* the sequences over S of length <= n
SeqsUpTo(S, n) ==
    IF n = 0 THEN {<<>>}
    ELSE LET shorter == SeqsUpTo(S, n - 1)
         IN  shorter \cup {Append(s, x) : s \in shorter, x \in S}

\* the volume dicts of the model: a cylinder and a box, no full_* keys
Volume(kind) ==
    IF kind = "cylinder"
    THEN [fiducial_rmin |-> 3, fiducial_rmax |-> 6,
          fiducial_zmin |-> -6, fiducial_zmax |-> 0]
    ELSE [fiducial_xmin |-> -6, fiducial_xmax |-> 6,
          fiducial_ymin |-> -6, fiducial_ymax |-> 6,
          fiducial_zmin |-> -6, fiducial_zmax |-> 0]

\* lines 79-93: 10 ** (a polynomial in log10 of the energy), a positive
\* length; the energies 4 and 6 of the model stand for the ranges 1 and 3
Tau95Length(energies) == energies - 3

\* lines 388-395 and 445-457, 483-488: the keys generate_vertex_positions
\* records that the generators read; margin is the range added with proposal
VertexAttributes(volume, margin) ==
    IF "fiducial_rmax" \in DOMAIN volume
    THEN [fiducial_rmin |-> IF "fiducial_rmin" \in DOMAIN volume
                            THEN volume["fiducial_rmin"] ELSE 0,
          fiducial_rmax |-> volume["fiducial_rmax"],
          fiducial_zmin |-> volume["fiducial_zmin"],
          fiducial_zmax |-> volume["fiducial_zmax"]]
    ELSE Update(volume,
                [xmin |-> volume["fiducial_xmin"] - margin,
                 xmax |-> volume["fiducial_xmax"] + margin,
                 ymin |-> volume["fiducial_ymin"] - margin,
                 ymax |-> volume["fiducial_ymax"] + margin,
                 zmin |-> volume["fiducial_zmin"] - margin,
                 zmax |-> volume["fiducial_zmax"]])

\* the vertices and directions sampled: one inside the fiducial cylinder, one
\* outside of it, both pointing along the x axis
VertexSamples ==
    {[xx |-> 3, yy |-> 0, zz |-> -3, zeniths |-> 90, azimuths |-> 0],
     [xx |-> 9, yy |-> 0, zz |-> -3, zeniths |-> 90, azimuths |-> 0]}

\* the direction and the position drawn for a surface muon
SurfaceVertexSamples ==
    {[xx |-> 3, yy |-> 0, zz |-> -3, zeniths |-> 90, azimuths |-> 0]}

EnergySamples == {4}

\* the power-law names 'E-<gamma>' of the model, line 342
PowerLawSpectra == {"E-1", "E-2"}

\* lines 340-367: the names for which get_energies samples energies; for
\* every other name it raises NotImplementedError (lines 368-370)
SpectrumImplemented(spectrum_type) ==
    \/ spectrum_type = "log_uniform"
    \/ spectrum_type \in PowerLawSpectra
    \/ spectrum_type = "GZK-1"
    \/ spectrum_type = "IceCube-nu-2017"
    \/ spectrum_type = "GZK-1+IceCube-nu-2017"

\* the spectrum names the generators are called with
Spectra == {"log_uniform", "flat"}

InelasticitySamples == {1}

\* the products the propagator may return: at the vertex or one step along
\* the track
ProductKinds ==
    {[distance |-> 0, energy |-> 1, shower_type |-> "had", code |-> 86],
     [distance |-> 3, energy |-> 2, shower_type |-> "em", code |-> 11]}

\* proposal_functions.get_secondaries_array(...)[0], lines 768-772, 1089-1093
ProductLists == SeqsUpTo(ProductKinds, MaxProducts)

\* lines 699-704
SurfaceFlavors(plus_minus) ==
    IF plus_minus = "plus" THEN <<-13>>
    ELSE IF plus_minus = "minus" THEN <<13>>
    ELSE <<13, -13>>

\* lines 688-713 and 962-978 (the keys the model follows)
RunAttributes(n, start_event_id, flavor) ==
    [n_events |-> n, start_event_id |-> start_event_id, flavors |-> flavor,
     Emin |-> 4, Emax |-> 4]

\* lines 717-744: a row of the table of generate_surface_muons
SurfaceRow(id, v, f, E) ==
    [azimuths |-> v.azimuths, zeniths |-> v.zeniths,
     xx |-> v.xx, yy |-> v.yy, zz |-> v.zz,
     event_group_ids |-> id, n_interaction |-> 1, vertex_times |-> 0,
     flavors |-> f, energies |-> E, interaction_type |-> "",
     inelasticity |-> 0, muon_energies |-> E,
     shower_energies |-> E * 0, shower_type |-> "had"]

\* lines 983-1019: a row of the table of generate_eventlist_cylinder
CylinderRow(id, v, f, ccnc, E, y) ==
    [azimuths |-> v.azimuths, zeniths |-> v.zeniths,
     xx |-> v.xx, yy |-> v.yy, zz |-> v.zz,
     event_group_ids |-> id, n_interaction |-> 1, vertex_times |-> 0,
     flavors |-> f, energies |-> E, interaction_type |-> ccnc,
     inelasticity |-> y,
     shower_energies |-> E * y, shower_type |-> "had"]

\* lines 717-729 and 983-998: the columns of a row that are sampled before
\* get_energies is called
RowBeforeEnergies(id, v, f) ==
    [azimuths |-> v.azimuths, zeniths |-> v.zeniths,
     xx |-> v.xx, yy |-> v.yy, zz |-> v.zz,
     event_group_ids |-> id, n_interaction |-> 1, vertex_times |-> 0,
     flavors |-> f]

\* lines 688-744 of generate_surface_muons; get_energies (line 731) raises
\* for a spectrum that is not implemented
SampleSurface ==
    /\ pc = "sample"
    /\ gen.name = "surface"
    /\ LET flavor == SurfaceFlavors(gen.plus_minus)
       IN  /\ attributes' =
                  Update(RunAttributes(gen.n_events, gen.start_event_id, flavor),
                         VertexAttributes(Volume(gen.volume), 0))
           /\ IF SpectrumImplemented(gen.spectrum)
              THEN /\ \E s \in [1..gen.n_events ->
                                   SurfaceVertexSamples \X Range(flavor)
                                   \X EnergySamples] :
                          data_sets' =
                              [i \in 1..gen.n_events |->
                                  SurfaceRow(gen.start_event_id + i - 1,
                                             s[i][1], s[i][2], s[i][3])]
                   /\ pc' = "expand"
              ELSE /\ \E s \in [1..gen.n_events ->
                                   SurfaceVertexSamples \X Range(flavor)] :
                          data_sets' =
                              [i \in 1..gen.n_events |->
                                  RowBeforeEnergies(gen.start_event_id + i - 1,
                                                    s[i][1], s[i][2])]
                   /\ pc' = "crash"
    /\ data_sets_fiducial' = <<>>
    /\ iE' = 0
    /\ UNCHANGED arz_state
    /\ UNCHANGED returned
    /\ UNCHANGED propagator_calls
    /\ UNCHANGED <<gen, call, writer_locals>>

\* lines 962-1019 of generate_eventlist_cylinder; get_energies (line 1001)
\* raises for a spectrum that is not implemented
SampleCylinder ==
    /\ pc = "sample"
    /\ gen.name = "cylinder"
    /\ attributes' =
           Update(RunAttributes(gen.n_events, gen.start_event_id, gen.flavor),
                  VertexAttributes(Volume(gen.volume),
                                   IF gen.proposal THEN Tau95Length(4) ELSE 0))
    /\ IF SpectrumImplemented(gen.spectrum)
       THEN /\ \E s \in [1..gen.n_events ->
                            VertexSamples \X Range(gen.flavor) \X {"cc", "nc"}
                            \X EnergySamples \X InelasticitySamples] :
                   data_sets' =
                       [i \in 1..gen.n_events |->
                           CylinderRow(gen.start_event_id + i - 1, s[i][1],
                                       s[i][2], s[i][3], s[i][4], s[i][5])]
            /\ pc' = "em_split"
       ELSE /\ \E s \in [1..gen.n_events ->
                            VertexSamples \X Range(gen.flavor)] :
                   data_sets' =
                       [i \in 1..gen.n_events |->
                           RowBeforeEnergies(gen.start_event_id + i - 1,
                                             s[i][1], s[i][2])]
            /\ pc' = "crash"
    /\ UNCHANGED arz_state
    /\ UNCHANGED returned
    /\ UNCHANGED propagator_calls
    /\ UNCHANGED <<gen, iE, call, data_sets_fiducial, writer_locals>>

\* line 1022
EmShowerMask(row) ==
    row.interaction_type = "cc" /\ Abs(row.flavors) = 12

\* InsertAt that puts x behind the last element
InsertAt_AtEnd(s, i, x) == Append(s, x)

\* list.insert(i, x), 0 <= i <= len
InsertAt(s, i, x) == SubSeq(s, 1, i) \o <<x>> \o SubSeq(s, i + 1, Len(s))

\* EmShowerEnergy that takes the hadronic fraction
EmShowerEnergy_Hadronic(row) == row.inelasticity * row.energies

\* line 1030: the shower energy of the inserted row
EmShowerEnergy(row) == (InelasticityDen - row.inelasticity) * row.energies

RECURSIVE EmSplitLoop(_, _, _)
\* lines 1026-1032: idxs are the 0-based rows of the mask still to visit
EmSplitLoop(t, idxs, n_inserted) ==
    IF idxs = <<>> THEN t
    ELSE LET i == Head(idxs)
             copied == InsertAt(t, i + 1 + n_inserted, t[i + n_inserted + 1])
             new == copied[i + 1 + n_inserted + 1]
         IN  EmSplitLoop(
                 [copied EXCEPT ![i + 1 + n_inserted + 1] =
                     [new EXCEPT !.shower_energies = EmShowerEnergy(new),
                                 !.shower_type = "em"]],
                 Tail(idxs), n_inserted + 1)

\* lines 1021-1036
EmSplitTable(t) ==
    EmSplitLoop(t,
                SortedSeq({i - 1 : i \in {j \in 1..Len(t) : EmShowerMask(t[j])}}),
                0)

\* lines 1021-1045, and line 1141 without proposal
EmSplit ==
    /\ pc = "em_split"
    /\ data_sets' = EmSplitTable(data_sets)
    /\ IF gen.proposal
       THEN /\ data_sets_fiducial' = <<>>
            /\ pc' = "expand"
       ELSE /\ data_sets_fiducial' = data_sets'
            /\ pc' = "expanded"
    /\ iE' = 0
    /\ UNCHANGED arz_state
    /\ UNCHANGED returned
    /\ UNCHANGED propagator_calls
    /\ UNCHANGED <<gen, call, attributes, writer_locals>>

\* MaskLeptons that does not look at the interaction channel
MaskLeptons_AnyChannel(row) == Abs(row.flavors) \in {14, 16}

\* lines 1050-1052
MaskLeptons(row) ==
    row.interaction_type = "cc" /\ Abs(row.flavors) \in {14, 16}

\* lines 1055-1059
LeptonCode(flavor) ==
    CASE flavor = 14 -> 13
      [] flavor = -14 -> -13
      [] flavor = 16 -> 15
      [] flavor = -16 -> -15
      [] OTHER -> flavor

\* line 1054
LeptonEnergy(row) == (InelasticityDen - row.inelasticity) * row.energies

\* lines 286-315
ProductPositionTime(row, product) ==
    LET dist == product.distance
    IN  [x |-> row.xx - dist * SinDeg(row.zeniths) * CosDeg(row.azimuths),
         y |-> row.yy - dist * SinDeg(row.zeniths) * SinDeg(row.azimuths),
         z |-> row.zz - dist * CosDeg(row.zeniths),
         time |-> dist \div cspeed]

\* lines 1076-1077 and 1100-1101
InFiducial(attrs, r, z) ==
    /\ r >= attrs["fiducial_rmin"] /\ r <= attrs["fiducial_rmax"]
    /\ z >= attrs["fiducial_zmin"] /\ z <= attrs["fiducial_zmax"]

\* AppendCopies that never appends the extra copy
AppendCopies_Once(s, x, n) == Append(s, x)

\* n copies of x appended to s, lines 1112-1114
AppendCopies(s, x, n) == IF n = 2 THEN Append(Append(s, x), x) ELSE Append(s, x)

\* SecondaryRow that also takes the energy of the product as the energy
SecondaryRow_ProductEnergy(copy, product, p, n_interaction) == [copy EXCEPT !.n_interaction = n_interaction, !.energies = product.energy * InelasticityDen, !.shower_energies = product.energy * InelasticityDen, !.inelasticity = NaN, !.interaction_type = product.shower_type, !.shower_type = product.shower_type, !.xx = p.x, !.yy = p.y, !.zz = p.z, !.vertex_times = p.time, !.flavors = product.code]

\* lines 1116-1132: the columns set in the last row appended, a copy of the
\* parent, for a product at position and time p
SecondaryRow(copy, product, p, n_interaction) ==
    [copy EXCEPT !.n_interaction = n_interaction,
                 !.shower_energies = product.energy * InelasticityDen,
                 !.inelasticity = NaN,
                 !.interaction_type = product.shower_type,
                 !.shower_type = product.shower_type,
                 !.xx = p.x, !.yy = p.y, !.zz = p.z,
                 !.vertex_times = p.time,
                 !.flavors = product.code]

\* Copies that asks for the extra copy with every product
Copies_AlwaysTwo(first_inserted) == 2

\* lines 1106-1110: the parent is copied once more with the first product in
\* the fiducial volume if it has not been inserted
Copies(first_inserted) == IF ~first_inserted THEN 2 ELSE 1

RECURSIVE CylinderProducts(_, _, _, _, _, _)
\* lines 1095-1132: the loop over the products of row
CylinderProducts(fid, attrs, row, products, first_inserted, n_interaction) ==
    IF products = <<>> THEN fid
    ELSE LET product == Head(products)
             p == ProductPositionTime(row, product)
         IN  IF InFiducial(attrs, Norm(p.x, p.y), p.z)
             THEN LET copies == Copies(first_inserted)
                      appended == AppendCopies(fid, row, copies)
                      last == Len(appended)
                  IN  CylinderProducts(
                          [appended EXCEPT ![last] =
                              SecondaryRow(@, product, p, n_interaction)],
                          attrs, row, Tail(products), TRUE, n_interaction + 1)
             ELSE CylinderProducts(fid, attrs, row, Tail(products),
                                   first_inserted, n_interaction)

\* lines 757-758 and 1063-1065: the direction the lepton moves in
LeptonDirection(row) ==
    <<-(SinDeg(row.zeniths) * CosDeg(row.azimuths)),
      -(SinDeg(row.zeniths) * SinDeg(row.azimuths)),
      -CosDeg(row.zeniths)>>

\* lines 768-772 and 1089-1093: a call of
\* proposal_functions.get_secondaries_array for row i of data_sets, with the
\* list of products it returned
GetSecondariesArray(i, energy, code, row, products) ==
    [iE |-> i, energy |-> energy, code |-> code,
     position |-> <<row.xx, row.yy, row.zz>>,
     direction |-> LeptonDirection(row), products |-> products]

\* lines 551-559; the box test is intersection_box_ray
GetIntersectionVolumeNeutrino(attrs, box_ray) ==
    IF "xmax" \in DOMAIN attrs THEN box_ray ELSE TRUE

\* lines 1067-1132: one pass of the loop over the event groups.  With a box
\* the attributes have no key fiducial_rmin and line 1076 raises KeyError.
CylinderEvent ==
    /\ pc = "expand"
    /\ gen.name = "cylinder"
    /\ IF "fiducial_rmin" \notin DOMAIN attributes
       THEN /\ pc' = "crash"
            /\ UNCHANGED <<iE, data_sets_fiducial, propagator_calls>>
       ELSE LET row == data_sets[iE + 1]
                first_inserted == InFiducial(attributes, Norm(row.xx, row.yy),
                                             row.zz)
                fid == IF first_inserted
                       THEN Append(data_sets_fiducial, row)
                       ELSE data_sets_fiducial
            IN  /\ IF MaskLeptons(row)
                      /\ GetIntersectionVolumeNeutrino(attributes, TRUE)
                   THEN \E products \in ProductLists :
                            /\ propagator_calls' =
                                   Append(propagator_calls,
                                          GetSecondariesArray(
                                              iE, LeptonEnergy(row),
                                              LeptonCode(row.flavors), row,
                                              products))
                            /\ data_sets_fiducial' =
                                   CylinderProducts(fid, attributes, row,
                                                    products, first_inserted, 2)
                   ELSE /\ data_sets_fiducial' = fid
                        /\ UNCHANGED propagator_calls
                /\ iE' = iE + 1
                /\ pc' = IF iE + 1 = Len(data_sets) THEN "expanded" ELSE "expand"
    /\ UNCHANGED arz_state
    /\ UNCHANGED returned
    /\ UNCHANGED <<gen, data_sets, call, attributes, writer_locals>>

RECURSIVE SurfaceProducts(_, _, _, _)
\* lines 776-799: the loop over the products of row
SurfaceProducts(fid, row, products, n_interaction) ==
    IF products = <<>> THEN fid
    ELSE LET product == Head(products)
             p == ProductPositionTime(row, product)
         IN  SurfaceProducts(
                 Append(fid,
                        [row EXCEPT !.n_interaction = n_interaction,
                                    !.shower_energies =
                                        product.energy * InelasticityDen,
                                    !.inelasticity = InelasticityDen,
                                    !.interaction_type = product.shower_type,
                                    !.shower_type = product.shower_type,
                                    !.xx = p.x, !.yy = p.y, !.zz = p.z,
                                    !.vertex_times = p.time,
                                    !.flavors = product.code]),
                 row, Tail(products), n_interaction + 1)

\* lines 760-799: one pass of the loop over the muons.  With a box the test
\* of line 763 reaches line 514 with a tuple as direction, a TypeError.
SurfaceEvent ==
    /\ pc = "expand"
    /\ gen.name = "surface"
    /\ IF "xmax" \in DOMAIN attributes
       THEN /\ pc' = "crash"
            /\ UNCHANGED <<iE, data_sets_fiducial, propagator_calls>>
       ELSE /\ IF GetIntersectionVolumeNeutrino(attributes, TRUE)
               THEN \E products \in ProductLists :
                        LET row == data_sets[iE + 1]
                        IN  /\ propagator_calls' =
                                   Append(propagator_calls,
                                          GetSecondariesArray(
                                              iE, row.energies, row.flavors,
                                              row, products))
                            /\ data_sets_fiducial' =
                                   SurfaceProducts(data_sets_fiducial, row,
                                                   products, 1)
               ELSE UNCHANGED <<data_sets_fiducial, propagator_calls>>
            /\ iE' = iE + 1
            /\ pc' = IF iE + 1 = Len(data_sets) THEN "expanded" ELSE "expand"
    /\ UNCHANGED arz_state
    /\ UNCHANGED returned
    /\ UNCHANGED <<gen, data_sets, call, attributes, writer_locals>>

\* WithShowerIds that numbers the rows from one
WithShowerIds_FromOne(t) ==
    [i \in 1..Len(t) |-> Update(t[i], [shower_ids |-> i])]

\* lines 820 and 1144: np.arange(0, len) as the column shower_ids
WithShowerIds(t) ==
    [i \in 1..Len(t) |-> Update(t[i], [shower_ids |-> i - 1])]

\* lines 815-818: the row written when no shower is fiducial
PlaceholderTable(t) == <<[t[1] EXCEPT !.flavors = 14]>>

\* the values of the argument n_events_per_file of a generator; it hands
\* them to write_events_to_hdf5 unread
PerFileArgs == {<<>>, <<1>>}

\* lines 570 and 837: the generators are called with the default of the
\* argument start_file_id, handed to write_events_to_hdf5 unread
GenStartFileIds == {0}

\* lines 815-821; the loop over the muons has ended
SurfaceFinish ==
    /\ pc = "expanded"
    /\ gen.name = "surface"
    /\ data_sets_fiducial' =
           WithShowerIds(IF Len(data_sets_fiducial) = 0
                         THEN PlaceholderTable(data_sets)
                         ELSE data_sets_fiducial)
    /\ \E k \in PerFileArgs, f \in GenStartFileIds :
           call' = [attributes |-> attributes, n_events_per_file |-> k,
                    start_file_id |-> f]
    /\ pc' = "write"
    /\ UNCHANGED arz_state
    /\ UNCHANGED returned
    /\ propagator_calls' = <<>>
    /\ UNCHANGED <<generator_locals, attributes, writer_locals>>

\* lines 1143-1146; the loop over the event groups has ended
CylinderFinish ==
    /\ pc = "expanded"
    /\ gen.name = "cylinder"
    /\ data_sets_fiducial' = WithShowerIds(data_sets_fiducial)
    /\ \E k \in PerFileArgs, f \in GenStartFileIds :
           call' = [attributes |-> attributes, n_events_per_file |-> k,
                    start_file_id |-> f]
    /\ pc' = "write"
    /\ UNCHANGED arz_state
    /\ UNCHANGED returned
    /\ propagator_calls' = <<>>
    /\ UNCHANGED <<generator_locals, attributes, writer_locals>>

\* the flavor lists generate_eventlist_cylinder is called with
FlavorLists == {<<12, -14>>, <<-12, 16>>, <<14, -16>>}

\* lines 566 and 830: the default of the argument start_event_id
GenStartIds == {1}

GenCalls ==
    {[name |-> "surface", n_events |-> n, start_event_id |-> s,
      plus_minus |-> pm, volume |-> v, spectrum |-> sp] :
        n \in 1..MaxGenEvents, s \in GenStartIds,
        pm \in {"plus", "minus", "mix"}, v \in {"cylinder", "box"},
        sp \in Spectra}
    \cup
    {[name |-> "cylinder", n_events |-> n, start_event_id |-> s,
      flavor |-> fl, proposal |-> p, volume |-> v, spectrum |-> sp] :
        n \in 1..MaxGenEvents, s \in GenStartIds, fl \in FlavorLists,
        p \in BOOLEAN, v \in {"cylinder", "box"}, sp \in Spectra}

InitGen ==
    /\ pc = "sample"
    /\ gen \in GenCalls
    /\ data_sets = <<>>
    /\ iE = 0
    /\ data_sets_fiducial = <<>>
    /\ attributes = <<>>
    /\ call = [attributes |-> <<>>, n_events_per_file |-> <<>>,
               start_file_id |-> 0]
    /\ WriterIdle
    /\ PropagatorIdle
    /\ returned = <<>>
    /\ ARZIdle

NextGen ==
    \/ SampleSurface \/ SampleCylinder \/ EmSplit
    \/ SurfaceEvent \/ CylinderEvent
    \/ SurfaceFinish \/ CylinderFinish
    \/ WriteStart \/ WriteNoMore \/ WriteFile

SpecGen == InitGen /\ [][NextGen]_vars

\* ------------------------------------------- generate_vertex_positions
\* The function as a generator calls it (lines 721 and 986): attributes is the
\* dict the generator has filled so far, the three arrays returned are
\* unpacked into the columns xx, yy, zz.  data_sets holds those columns here,
\* one row for each vertex.

\* int(a / b) for b # 0: the quotient cut towards zero
IntDiv(a, b) ==
    LET q == Abs(a) \div Abs(b)
    IN  IF (a < 0) # (b < 0) THEN -q ELSE q

\* x / 3. for the multiples of 3 of the model, lines 408 and 416
Third(x) == IntDiv(x, 3)

\* lines 389-395: the fiducial keys of a cylinder
CylinderFiducial(volume) ==
    [fiducial_rmin |-> IF "fiducial_rmin" \in DOMAIN volume
                       THEN volume["fiducial_rmin"] ELSE 0,
     fiducial_rmax |-> volume["fiducial_rmax"],
     fiducial_zmin |-> volume["fiducial_zmin"],
     fiducial_zmax |-> volume["fiducial_zmax"]]

\* lines 397-422: the locals rmin, rmax, zmin, zmax, n_events and full_rmax
\* (<<>> while the name is not bound); attrs holds the fiducial keys
CylinderLocals(volume, proposal, attrs) ==
    IF ~proposal
    THEN [rmin |-> attrs["fiducial_rmin"], rmax |-> attrs["fiducial_rmax"],
          zmin |-> attrs["fiducial_zmin"], zmax |-> attrs["fiducial_zmax"],
          full_rmax |-> <<>>, n_events |-> attrs["n_events"]]
    ELSE LET tau_95_length == Tau95Length(attrs["Emax"])
             rmin == IF "full_rmin" \in DOMAIN volume THEN volume["full_rmin"]
                     ELSE Third(attrs["fiducial_rmin"])
             rmax == IF "full_rmax" \in DOMAIN volume THEN volume["full_rmax"]
                     ELSE attrs["fiducial_rmax"]
             full_rmax == IF "full_rmax" \in DOMAIN volume THEN <<>>
                          ELSE <<tau_95_length + attrs["fiducial_rmax"]>>
             zmax == IF "full_zmax" \in DOMAIN volume THEN volume["full_zmax"]
                     ELSE Third(attrs["fiducial_zmax"])
             zmin == IF "full_zmin" \in DOMAIN volume THEN volume["full_zmin"]
                     ELSE attrs["fiducial_zmin"] - tau_95_length
         IN  [rmin |-> rmin, rmax |-> rmax, zmin |-> zmin, zmax |-> zmax,
              full_rmax |-> full_rmax,
              n_events |-> attrs["n_events"] *
                  IntDiv(rmax * rmax * zmin,
                         attrs["fiducial_rmax"] * attrs["fiducial_rmax"]
                             * attrs["fiducial_zmin"])]

\* lines 438-443: the vertices drawn in a cylinder, at phi = 0
CylinderPositions(loc) ==
    {[xx |-> r, yy |-> 0, zz |-> z] :
        r \in {loc.rmin, loc.full_rmax[1]}, z \in {loc.zmin, loc.zmax}}

\* lines 388-443 with the unpacking of lines 721 and 986, for a cylinder.
\* Line 424 reads attributes['zmax'] before line 432 has set it (KeyError);
\* line 438 reads full_rmax, which only line 412 binds (NameError).
VertexCylinder ==
    /\ pc = "vertex"
    /\ "fiducial_rmax" \in DOMAIN gen.volume
    /\ LET fid == Update(attributes, CylinderFiducial(gen.volume))
           loc == CylinderLocals(gen.volume, gen.proposal, fid)
           recorded == Update(fid, [rmin |-> loc.rmin, rmax |-> loc.rmax,
                                    zmin |-> loc.zmin, zmax |-> loc.zmax,
                                    volume |-> (loc.rmax * loc.rmax
                                                - loc.rmin * loc.rmin)
                                               * (loc.zmax - loc.zmin)])
       IN  IF gen.proposal /\ "zmax" \notin DOMAIN fid
           THEN /\ attributes' = fid
                /\ pc' = "crash"
                /\ UNCHANGED data_sets
           ELSE IF loc.full_rmax = <<>>
           THEN /\ attributes' = recorded
                /\ pc' = "crash"
                /\ UNCHANGED data_sets
           ELSE /\ attributes' = recorded
                /\ data_sets' \in [1..loc.n_events -> CylinderPositions(loc)]
                /\ pc' = "vertices"
    /\ UNCHANGED arz_state
    /\ UNCHANGED returned
    /\ UNCHANGED propagator_calls
    /\ UNCHANGED <<gen, iE, call, data_sets_fiducial, writer_locals>>

\* lines 445-450: the fiducial keys of a box
BoxFiducial(volume) ==
    [fiducial_xmax |-> volume["fiducial_xmax"],
     fiducial_xmin |-> volume["fiducial_xmin"],
     fiducial_ymax |-> volume["fiducial_ymax"],
     fiducial_ymin |-> volume["fiducial_ymin"],
     fiducial_zmin |-> volume["fiducial_zmin"],
     fiducial_zmax |-> volume["fiducial_zmax"]]

\* BoxExtended with the signs of the range exchanged
BoxExtended_Inward(attrs, tau_95_length) ==
    [xmin |-> attrs["fiducial_xmin"] + tau_95_length,
     xmax |-> attrs["fiducial_xmax"] - tau_95_length,
     ymin |-> attrs["fiducial_ymin"] + tau_95_length,
     ymax |-> attrs["fiducial_ymax"] - tau_95_length,
     zmin |-> attrs["fiducial_zmin"] + tau_95_length,
     zmax |-> attrs["fiducial_zmax"]]

\* lines 452-457 and 465-469: the fiducial bounds moved out by the range
BoxExtended(attrs, tau_95_length) ==
    [xmin |-> attrs["fiducial_xmin"] - tau_95_length,
     xmax |-> attrs["fiducial_xmax"] + tau_95_length,
     ymin |-> attrs["fiducial_ymin"] - tau_95_length,
     ymax |-> attrs["fiducial_ymax"] + tau_95_length,
     zmin |-> attrs["fiducial_zmin"] - tau_95_length,
     zmax |-> attrs["fiducial_zmax"]]

\* lines 458, 479 and 490
BoxVolume(b) == (b.xmax - b.xmin) * (b.ymax - b.ymin) * (b.zmax - b.zmin)

\* line 480
BoxEvents(n, volume_full, volume_fiducial) ==
    n * IntDiv(volume_full, volume_fiducial)

\* lines 494-496: the vertices drawn in a box
BoxPositions(b) ==
    {[xx |-> b.xmin, yy |-> b.ymin, zz |-> b.zmin],
     [xx |-> b.xmax, yy |-> b.ymax, zz |-> b.zmax],
     [xx |-> b.xmin, yy |-> b.ymax, zz |-> b.zmin]}

\* lines 444-497 with the unpacking of lines 721 and 986, for a box.  With
\* full_xmax in the volume lines 473-478 read the full_* keys from
\* attributes, which does not hold them (KeyError).
VertexBox ==
    /\ pc = "vertex"
    /\ "fiducial_rmax" \notin DOMAIN gen.volume
    /\ "fiducial_xmax" \in DOMAIN gen.volume
    /\ LET fid == Update(attributes, BoxFiducial(gen.volume))
           volume_fiducial == BoxVolume(BoxExtended(fid, 0))
       IN  IF gen.proposal /\ "full_xmax" \in DOMAIN gen.volume
                          /\ "full_xmin" \notin DOMAIN fid
           THEN /\ attributes' = fid
                /\ pc' = "crash"
                /\ UNCHANGED data_sets
           ELSE LET b == IF ~gen.proposal THEN BoxExtended(fid, 0)
                         ELSE IF "full_xmax" \notin DOMAIN gen.volume
                         THEN BoxExtended(fid, Tau95Length(fid["Emax"]))
                         ELSE [xmin |-> fid["full_xmin"],
                               xmax |-> fid["full_xmax"],
                               ymin |-> fid["full_ymin"],
                               ymax |-> fid["full_ymax"],
                               zmin |-> fid["full_zmin"],
                               zmax |-> fid["full_zmax"]]
                    n == IF gen.proposal
                         THEN BoxEvents(fid["n_events"], BoxVolume(b),
                                        volume_fiducial)
                         ELSE fid["n_events"]
                IN  /\ attributes' =
                           Update(Update(fid, b), [volume |-> BoxVolume(b)])
                    /\ data_sets' \in [1..n -> BoxPositions(b)]
                    /\ pc' = "vertices"
    /\ UNCHANGED arz_state
    /\ UNCHANGED returned
    /\ UNCHANGED propagator_calls
    /\ UNCHANGED <<gen, iE, call, data_sets_fiducial, writer_locals>>

\* VertexNeither that hands back three empty arrays
VertexNeither_ReturnsEmpty ==
    /\ pc = "vertex"
    /\ "fiducial_rmax" \notin DOMAIN gen.volume
    /\ "fiducial_xmax" \notin DOMAIN gen.volume
    /\ pc' = "vertices"
    /\ UNCHANGED arz_state
    /\ UNCHANGED returned
    /\ UNCHANGED propagator_calls
    /\ UNCHANGED <<gen, data_sets, iE, call, data_sets_fiducial, attributes,
                   writer_locals>>

\* lines 388 and 444: with neither key the function ends without a return
\* statement; unpacking None at line 721 or 986 raises TypeError
VertexNeither ==
    /\ pc = "vertex"
    /\ "fiducial_rmax" \notin DOMAIN gen.volume
    /\ "fiducial_xmax" \notin DOMAIN gen.volume
    /\ pc' = "crash"
    /\ UNCHANGED arz_state
    /\ UNCHANGED returned
    /\ UNCHANGED propagator_calls
    /\ UNCHANGED <<gen, data_sets, iE, call, data_sets_fiducial, attributes,
                   writer_locals>>

\* the full_* keys a caller may add to a cylinder and to a box
CylinderFull ==
    [full_rmin |-> 0, full_rmax |-> 9, full_zmin |-> -9, full_zmax |-> 0]

BoxFull ==
    [full_xmin |-> -9, full_xmax |-> 9, full_ymin |-> -9, full_ymax |-> 9,
     full_zmin |-> -9, full_zmax |-> 0]

\* the volume dicts generate_vertex_positions is called with
VertexVolumes ==
    {Volume("cylinder"),
     [fiducial_rmax |-> 6, fiducial_zmin |-> -6, fiducial_zmax |-> -3],
     Update(Volume("cylinder"), CylinderFull),
     Volume("box"),
     Update(Volume("box"), BoxFull),
     [fiducial_zmin |-> -6, fiducial_zmax |-> 0],
     [fiducial_rmin |-> 3, fiducial_xmin |-> -6,
      fiducial_zmin |-> -6, fiducial_zmax |-> 0]}

\* the values of Emax
VertexEmax == {4, 6}

VertexCalls ==
    {[name |-> "vertex", n_events |-> n, volume |-> v, proposal |-> p,
      Emax |-> E] :
        n \in 1..MaxGenEvents, v \in VertexVolumes, p \in BOOLEAN,
        E \in VertexEmax}

\* the generator has filled attributes (lines 962-978) and calls
\* generate_vertex_positions
InitVertex ==
    /\ pc = "vertex"
    /\ gen \in VertexCalls
    /\ attributes = Update(RunAttributes(gen.n_events, 1, <<12, -14>>),
                           [Emax |-> gen.Emax])
    /\ data_sets = <<>>
    /\ iE = 0
    /\ data_sets_fiducial = <<>>
    /\ call = [attributes |-> <<>>, n_events_per_file |-> <<>>,
               start_file_id |-> 0]
    /\ WriterIdle
    /\ PropagatorIdle
    /\ returned = <<>>
    /\ ARZIdle

NextVertex == VertexCylinder \/ VertexBox \/ VertexNeither

SpecVertex == InitVertex /\ [][NextVertex]_vars

\* ------------------------------------------ ARZ.get_shower_profile
\* SignalGen/ARZ/ARZ.py.  The instance keeps, for each shower type, the
\* profile index it drew last (_random_numbers).  requests records what each
\* request asked for and the index it used (<<>> if it raised).

\* the largest number of requests followed
MaxRequests == 3
\* the number of profiles the library holds for a shower type and energy
NProfiles == 2

\* the keys of the shower library
LibraryTypes == {"HAD", "EM"}

\* the shower types requested; the library has no profile for "MU"
RequestTypes == {"HAD", "EM", "MU"}

\* lines 146-196: one request.  A type the library lacks raises KeyError
\* (lines 166-167); an index the caller passes is used and not stored
\* (lines 191-192); with same_shower the stored index is used if there is one
\* (lines 179-181); otherwise an index is drawn and stored (lines 182-190).
GetShowerProfile ==
    /\ pc = "arz"
    /\ Len(requests) < MaxRequests
    /\ \E shower_type \in RequestTypes, same_shower \in BOOLEAN,
          iN \in {<<>>} \cup {<<i>> : i \in 0..(NProfiles - 1)} :
          LET request == [shower_type |-> shower_type, iN |-> iN,
                          same_shower |-> same_shower]
          IN  IF shower_type \notin LibraryTypes
              THEN /\ requests' = Append(requests,
                                         Update(request, [used |-> <<>>]))
                   /\ UNCHANGED random_numbers
              ELSE IF iN # <<>>
              THEN /\ requests' = Append(requests,
                                         Update(request, [used |-> iN]))
                   /\ UNCHANGED random_numbers
              ELSE IF same_shower /\ shower_type \in DOMAIN random_numbers
              THEN /\ requests' =
                          Append(requests,
                                 Update(request,
                                        [used |-> <<random_numbers[shower_type]>>]))
                   /\ UNCHANGED random_numbers
              ELSE \E drawn \in 0..(NProfiles - 1) :
                       /\ requests' = Append(requests,
                                             Update(request, [used |-> <<drawn>>]))
                       /\ random_numbers' =
                              Update(random_numbers, shower_type :> drawn)
    /\ UNCHANGED <<gen, data_sets, iE, call, data_sets_fiducial, attributes,
                   writer_locals>>
    /\ UNCHANGED propagator_calls
    /\ UNCHANGED returned
    /\ UNCHANGED pc

\* lines 61-78: the instance after __init__
InitARZ ==
    /\ pc = "arz"
    /\ gen = [name |-> "arz"]
    /\ data_sets = <<>>
    /\ iE = 0
    /\ data_sets_fiducial = <<>>
    /\ attributes = <<>>
    /\ call = [attributes |-> <<>>, n_events_per_file |-> <<>>,
               start_file_id |-> 0]
    /\ WriterIdle
    /\ PropagatorIdle
    /\ returned = <<>>
    /\ random_numbers = <<>>
    /\ requests = <<>>

NextARZ == GetShowerProfile

SpecARZ == InitARZ /\ [][NextARZ]_vars

\* --------------------------------- get_intersection_volume_neutrino
\* The times along a ray are counted in units of 1 / TimeDen, and the
\* components of a direction divide TimeDen, so that 1 / direction is exact.
TimeDen == 2

\* the components of the directions of the model, none of them zero
DirectionComponents ==
    {d \in (-TimeDen)..TimeDen : d # 0 /\ TimeDen % Abs(d) = 0}

\* s[i] of Python, i counted from 0
At(s, i) == s[i + 1]

\* lines 512-548
IntersectionBoxRay(bounds, ray) ==
    LET orig == At(ray, 0)
        direction == At(ray, 1)
        invdir == [i \in 1..3 |-> TimeDen \div direction[i]]
        sign == [i \in 1..3 |-> IF invdir[i] < 0 THEN 1 ELSE 0]
        tmin == (At(At(bounds, At(sign, 0)), 0) - At(orig, 0)) * At(invdir, 0)
        tmax == (At(At(bounds, 1 - At(sign, 0)), 0) - At(orig, 0))
                    * At(invdir, 1)
        tymin == (At(At(bounds, At(sign, 1)), 1) - At(orig, 1)) * At(invdir, 1)
        tymax == (At(At(bounds, 1 - At(sign, 1)), 1) - At(orig, 1))
                     * At(invdir, 1)
    IN  IF (tmin > tymax) \/ (tymin > tmax) THEN FALSE
        ELSE LET tmin_y == IF tymin > tmin THEN tymin ELSE tmin
                 tmax_y == IF tymax < tmax THEN tymax ELSE tmax
                 tzmin == (At(At(bounds, At(sign, 2)), 2) - At(orig, 2))
                              * At(invdir, 2)
                 tzmax == (At(At(bounds, 1 - At(sign, 2)), 2) - At(orig, 2))
                              * At(invdir, 2)
             IN  IF (tmin_y > tzmax) \/ (tzmin > tmax_y) THEN FALSE
                 ELSE LET tmin_z == IF tzmin > tmin_y THEN tzmin ELSE tmin_y
                          tmax_z == IF tzmax < tmax_y THEN tzmax ELSE tmax_y
                      IN  IF tmin_z < 0 THEN ~(tmax_z < 0) ELSE TRUE

\* lines 553-554
FiducialBounds(attrs) ==
    <<<<attrs["fiducial_xmin"], attrs["fiducial_ymin"], attrs["fiducial_zmin"]>>,
      <<attrs["fiducial_xmax"], attrs["fiducial_ymax"], attrs["fiducial_zmax"]>>>>

\* the attributes of the calls: two fiducial boxes as
\* generate_vertex_positions records them, and the fiducial cylinder
IntersectionAttributes ==
    {VertexAttributes([fiducial_xmin |-> 0, fiducial_xmax |-> 2,
                       fiducial_ymin |-> 0, fiducial_ymax |-> ymax,
                       fiducial_zmin |-> -2, fiducial_zmax |-> 0], 0) :
        ymax \in {1, 2}}
    \cup {VertexAttributes(Volume("cylinder"), 0)}

\* the vertices of the calls: before, in and behind the box on every axis
IntersectionVertices == {-1, 1, 3} \X {-1, 1, 3} \X {-3, -1, 1}

\* the directions of the calls, as rows of an array
IntersectionDirections ==
    DirectionComponents \X DirectionComponents \X DirectionComponents

\* lines 551-559: the function returns
GetIntersection ==
    /\ pc = "intersect"
    /\ returned' =
           <<GetIntersectionVolumeNeutrino(
                 attributes,
                 IntersectionBoxRay(FiducialBounds(attributes),
                                    <<gen.vertex, gen.direction>>))>>
    /\ pc' = "returned"
    /\ UNCHANGED arz_state
    /\ UNCHANGED propagator_calls
    /\ UNCHANGED <<generator_locals, call, data_sets_fiducial, attributes,
                   writer_locals>>

\* line 551: the function is called
InitIntersection ==
    /\ pc = "intersect"
    /\ \E v \in IntersectionVertices, d \in IntersectionDirections :
           gen = [name |-> "get_intersection_volume_neutrino",
                  vertex |-> v, direction |-> d]
    /\ attributes \in IntersectionAttributes
    /\ data_sets = <<>>
    /\ iE = 0
    /\ data_sets_fiducial = <<>>
    /\ call = [attributes |-> <<>>, n_events_per_file |-> <<>>,
               start_file_id |-> 0]
    /\ WriterIdle
    /\ PropagatorIdle
    /\ returned = <<>>
    /\ ARZIdle

NextIntersection == GetIntersection

SpecIntersection == InitIntersection /\ [][NextIntersection]_vars

\* ------------------------------------------------------- get_energies
\* line 343: float(spectrum_type[1:]) for the power-law names of the model
PowerLawExponent(spectrum_type) ==
    CASE spectrum_type = "E-1" -> -1
      [] spectrum_type = "E-2" -> -2

\* lines 345-346: E ** gamma for gamma <= 0, as the fraction <<1, E ** -gamma>>
Power(E, gamma) == <<1, E ^ (-gamma)>>

\* line 351: the values np.random.uniform(Nmax, Nmin) draws in the model, those
\* between Nmax and Nmin that are a power of an integer energy
UniformN(Emin, Emax, gamma) == {Power(E, gamma) : E \in Emin..Emax}

\* lines 348-349: np.exp(np.log(N) / gamma).  For gamma = 0 every N is
\* 1 = Emin ** 0 = Emax ** 0, np.log(N) is 0 and numpy divides 0 by 0 to nan
\* with a RuntimeWarning, no exception; np.exp(nan) is nan.
GetInverseSpectrum(N, gamma, Emin, Emax) ==
    IF gamma = 0 THEN NaN
    ELSE CHOOSE E \in Emin..Emax : Power(E, gamma) = N

\* the arguments get_energies is called with
EnergyCalls ==
    {[name |-> "get_energies", n_events |-> n, Emin |-> lo, Emax |-> hi,
      spectrum_type |-> sp] :
        n \in 1..MaxGenEvents, lo \in {1, 2}, hi \in {3, 4},
        sp \in {"log_uniform", "flat"} \cup PowerLawSpectra}

\* lines 339-371
GetEnergies ==
    /\ pc = "energies"
    /\ IF gen.spectrum_type = "log_uniform"
       THEN /\ returned' \in [1..gen.n_events -> gen.Emin..gen.Emax]
            /\ pc' = "returned"
       ELSE IF gen.spectrum_type \in PowerLawSpectra
       THEN LET gamma == PowerLawExponent(gen.spectrum_type) + 1
            IN  /\ \E N \in [1..gen.n_events ->
                                UniformN(gen.Emin, gen.Emax, gamma)] :
                       returned' =
                           [i \in 1..gen.n_events |->
                               GetInverseSpectrum(N[i], gamma, gen.Emin,
                                                  gen.Emax)]
                /\ pc' = "returned"
       ELSE /\ pc' = "crash"
            /\ UNCHANGED returned
    /\ UNCHANGED arz_state
    /\ UNCHANGED propagator_calls
    /\ UNCHANGED <<generator_locals, call, data_sets_fiducial, attributes,
                   writer_locals>>

\* line 318: the function is called
InitEnergies ==
    /\ pc = "energies"
    /\ gen \in EnergyCalls
    /\ attributes = <<>>
    /\ data_sets = <<>>
    /\ iE = 0
    /\ data_sets_fiducial = <<>>
    /\ call = [attributes |-> <<>>, n_events_per_file |-> <<>>,
               start_file_id |-> 0]
    /\ WriterIdle
    /\ PropagatorIdle
    /\ returned = <<>>
    /\ ARZIdle

NextEnergies == GetEnergies

SpecEnergies == InitEnergies /\ [][NextEnergies]_vars

\* ---------------------------------- properties of write_events_to_hdf5
TableIds == EventGroupIds(data_sets_fiducial)

\* the distinct event group ids of the table, in increasing order
DistinctIds == Unique(TableIds)

\* K of the call: the argument, or the attribute n_events when it is unset
CallK ==
    IF call.n_events_per_file = <<>> THEN call.attributes["n_events"]
    ELSE call.n_events_per_file[1]

CallStart == StartEventIdOf(call.attributes)

CallTotal == call.attributes["n_events"]

Returned == pc = "done"

\* the ids shard i (0, 1, ...) claims by rank
ClaimedIds(i) ==
    {DistinctIds[r] : r \in {q \in 1..Len(DistinctIds) :
                                i * CallK < q /\ q <= (i + 1) * CallK}}

\* the last id shard i claims
LastIdOf(i) == DistinctIds[Min((i + 1) * CallK, Len(DistinctIds))]

IdsRemainAfter(i) == Len(DistinctIds) > (i + 1) * CallK

\* every id of the table lies in [start_event_id, start_event_id + n_events)
IdsInRange ==
    \A r \in 1..Len(TableIds) :
        CallStart <= TableIds[r] /\ TableIds[r] < CallStart + CallTotal

\* the rows (1-based) a file holds
RowsOf(f) == {r \in 1..Len(data_sets_fiducial) :
                 f.start_index < r /\ r <= f.stop_index}

\* C1: when write_events_to_hdf5 returns, the files partition the table:
\* the first starts at row 0, each later one at the stop index of the one
\* before, and the last stops at the length of the table.
C1_ShardsPartitionTable ==
    (Returned /\ IdsInRange) =>
        /\ Len(files) >= 1
        /\ files[1].start_index = 0
        /\ \A j \in 2..Len(files) :
               files[j].start_index = files[j - 1].stop_index
        /\ files[Len(files)].stop_index = Len(data_sets_fiducial)

\* the n_events attribute the four cases give shard i
ExpectedNEvents(i) ==
    IF i = 0 /\ ~IdsRemainAfter(i) THEN CallTotal
    ELSE IF ~IdsRemainAfter(i)
         THEN CallTotal - (LastIdOf(i - 1) + 1) + CallStart
    ELSE IF i = 0 THEN LastIdOf(i) - CallStart + 1
    ELSE LastIdOf(i) - LastIdOf(i - 1)

\* C2: the n_events attribute of shard i is, in this precedence: the total
\* if i = 0 and no ids remain; total - (last id of the previous shard + 1) +
\* start_event_id if no ids remain; last id - start_event_id + 1 if i = 0;
\* otherwise last id - last id of the previous shard.
C2_NEventsByCase ==
    \A j \in 1..Len(files) :
        files[j].attrs["n_events"] = ExpectedNEvents(j - 1)

\* a first, an interior and a last shard have been written
C2_Witness ==
    /\ Returned
    /\ Len(files) = 3
    /\ ~IdsRemainAfter(2)
    /\ CallStart > 0

\* the table holds each id start_event_id .. start_event_id + n - 1 in one row
OneRowPerEvent ==
    /\ Len(TableIds) = CallTotal
    /\ \A r \in 1..Len(TableIds) : TableIds[r] = CallStart + r - 1

CeilDiv(a, b) == (a + b - 1) \div b

\* C3: a table with one row for each of the n simulated events is written as
\* ceil(n/K) shards, shard i holding rows [i*K, min((i+1)*K, n)) and an
\* n_events attribute equal to its number of rows.
C3_OneRowPerEventShards ==
    (Returned /\ OneRowPerEvent) =>
        /\ Len(files) = CeilDiv(CallTotal, CallK)
        /\ \A j \in 1..Len(files) :
              /\ files[j].start_index = (j - 1) * CallK
              /\ files[j].stop_index = Min(j * CallK, CallTotal)
              /\ files[j].attrs["n_events"] =
                     files[j].stop_index - files[j].start_index

\* the name is base.partNNNN with NNNN the four decimal digits of n
IsPartName(name, n) ==
    /\ Len(name) = 6
    /\ name[1] = "base"
    /\ name[2] = ".part"
    /\ \A d \in 3..6 : name[d] \in 0..9
    /\ 1000 * name[3] + 100 * name[4] + 10 * name[5] + name[6] = n

\* C4 as claimed: a file has the unmodified base name exactly if it is the
\* only file of the call; otherwise file i is base.part<start_file_id + i>.
C4_BaseNameIffOnlyShard ==
    (Returned /\ IdsInRange) =>
        \A j \in 1..Len(files) :
            IF Len(files) = 1 THEN files[j].name = <<"base">>
            ELSE IsPartName(files[j].name, call.start_file_id + j - 1)

\* C4 as amended: file i has the unmodified base name exactly if i = 0 and
\* n_events_per_file is unset or not smaller than the attribute n_events;
\* otherwise it is base.part<start_file_id + i>, padded to four digits.
C4_BaseNameIffNotSplit ==
    \A j \in 1..Len(files) :
        IF j = 1 /\ CallK >= CallTotal THEN files[j].name = <<"base">>
        ELSE IsPartName(files[j].name, call.start_file_id + j - 1)

\* the only file of a call carries a .part suffix
C4_Witness ==
    /\ Returned
    /\ Len(files) = 1
    /\ IsPartName(files[1].name, call.start_file_id)
    /\ call.start_file_id > 0

\* C5: a file holds exactly the rows of the ids it claims by rank, so no
\* event group is split over two files.
C5_GroupsNotSplit ==
    \A j \in 1..Len(files) :
        RowsOf(files[j]) =
            {r \in 1..Len(TableIds) : TableIds[r] \in ClaimedIds(j - 1)}

\* a group of two rows ends a file that is followed by another file
C5_Witness ==
    /\ Len(files) = 2
    /\ \E r \in RowsOf(files[1]) :
          /\ r + 1 \in RowsOf(files[1])
          /\ TableIds[r] = TableIds[r + 1]
          /\ r + 2 \in RowsOf(files[2])

\* C6: with n_events_per_file unset and the ids inside
\* [start_event_id, start_event_id + n_events) the call does not fail and
\* writes one file, which holds all rows and has n_events = the total.
C6_UnsetWritesOneShard ==
    (call.n_events_per_file = <<>> /\ IdsInRange) =>
        /\ pc # "crash"
        /\ Len(files) <= 1
        /\ Returned =>
              /\ Len(files) = 1
              /\ files[1].start_index = 0
              /\ files[1].stop_index = Len(data_sets_fiducial)
              /\ files[1].attrs["n_events"] = CallTotal

\* one file for a table in which fewer groups survive than were simulated
C6_Witness ==
    /\ Returned
    /\ call.n_events_per_file = <<>>
    /\ IdsInRange
    /\ Len(DistinctIds) < CallTotal
    /\ Len(files) = 1

\* C7: every file carries every run attribute with the caller's value,
\* except n_events, which is the event count of the file; the version pair
\* and the header; and total_number_of_events, the total of the run.
C7_FileAttributes ==
    \A j \in 1..Len(files) :
        LET a == files[j].attrs
        IN  /\ \A k \in (DOMAIN call.attributes) \ {"n_events"} :
                  k \in DOMAIN a /\ a[k] = call.attributes[k]
            /\ a["n_events"] = ExpectedNEvents(j - 1)
            /\ a["VERSION_MAJOR"] = 2
            /\ a["VERSION_MINOR"] = 2
            /\ a["header"] = HEADER
            /\ a["total_number_of_events"] = CallTotal

\* two files whose n_events differ from the total of the run
C7_Witness ==
    /\ Len(files) = 2
    /\ files[1].attrs["n_events"] # CallTotal
    /\ files[2].attrs["n_events"] # CallTotal
    /\ files[1].attrs["total_number_of_events"] =
           files[2].attrs["total_number_of_events"]

\* ------------------------------------------ properties of the generators
\* the generator has a fiducial cut or a product loop that can leave no row
CutsRows == gen.name = "surface" \/ (gen.name = "cylinder" /\ gen.proposal)

\* row is a row of the sampled table with the flavor forced to 14 that
\* deposits no shower energy
IsPlaceholderRow(row) ==
    /\ row.flavors = 14
    /\ row.inelasticity * row.energies = 0
    /\ \E i \in 1..Len(data_sets) :
           [row EXCEPT !.shower_ids = 0] =
               Update([data_sets[i] EXCEPT !.flavors = 14], [shower_ids |-> 0])

\* C8: if the loop over the event groups leaves no fiducial row, the table
\* handed to write_events_to_hdf5 is one placeholder row (a sampled row with
\* flavor 14 and no shower energy), so that table is never empty.
C8_PlaceholderWhenEmpty ==
    [][(pc = "expanded" /\ CutsRows /\ Len(data_sets_fiducial) = 0) =>
           /\ pc' = "write"
           /\ Len(data_sets_fiducial') = 1
           /\ IsPlaceholderRow(data_sets_fiducial'[1])]_vars

\* the loop over the event groups has ended and left no fiducial row
NoFiducialRow ==
    /\ CutsRows
    /\ pc \in {"write", "loop", "done", "crash"}
    /\ iE = Len(data_sets)
    /\ \/ Len(data_sets_fiducial) = 0
       \/ /\ gen.name = "surface"
          /\ Len(data_sets_fiducial) = 1
          /\ data_sets_fiducial[1].flavors = 14

\* C9: a run without fiducial rows writes, for every n_events_per_file and
\* start_file_id, one file of one row with n_events = the requested total.
C9_PlaceholderOneShard ==
    (NoFiducialRow /\ pc \in {"done", "crash"}) =>
        /\ Returned
        /\ Len(files) = 1
        /\ files[1].stop_index - files[1].start_index = 1
        /\ files[1].attrs["n_events"] = gen.n_events

\* the part of C9 that generate_surface_muons meets
SurfacePlaceholderOneShard ==
    gen.name = "surface" => C9_PlaceholderOneShard

\* the rows the split makes of a sampled row
SplitRows(r) ==
    LET had == [r EXCEPT !.shower_type = "had",
                         !.shower_energies = r.inelasticity * r.energies]
    IN  IF r.interaction_type = "cc" /\ r.flavors \in {12, -12}
        THEN <<had,
               [r EXCEPT !.shower_type = "em",
                         !.shower_energies =
                             (InelasticityDen - r.inelasticity) * r.energies]>>
        ELSE <<had>>

RECURSIVE SplitAll(_)
SplitAll(t) == IF t = <<>> THEN <<>> ELSE SplitRows(Head(t)) \o SplitAll(Tail(t))

\* C10: the split turns every electron charged-current row into a 'had' row
\* with shower energy inelasticity * energy followed by an 'em' row with
\* (1 - inelasticity) * energy, equal in all other fields, every other row
\* into one 'had' row, and keeps the order of the rows.
C10_ElectronCCSplit ==
    [][pc = "em_split" => data_sets' = SplitAll(data_sets)]_vars

\* an electron charged-current row was split in front of another event group
C10_Witness ==
    /\ gen.name = "cylinder"
    /\ pc = "expanded"
    /\ Len(data_sets) = 3
    /\ data_sets[1].shower_type = "had"
    /\ data_sets[2].shower_type = "em"
    /\ data_sets[2].event_group_ids = data_sets[1].event_group_ids
    /\ data_sets[2].shower_energies # data_sets[1].shower_energies
    /\ data_sets[3].event_group_ids # data_sets[1].event_group_ids

\* the generator has handed its final table to write_events_to_hdf5
FinalTable == gen.name \in {"surface", "cylinder"} /\ pc \in {"write", "loop", "done"}

\* C11: in the final table of either generator the event group ids are
\* non-decreasing in row order, so the rows of one event group are contiguous.
C11_IdsNonDecreasing ==
    FinalTable =>
        /\ \A r \in 1..(Len(TableIds) - 1) : TableIds[r] <= TableIds[r + 1]
        /\ \A i, k \in 1..Len(TableIds) :
               (i < k /\ TableIds[i] = TableIds[k]) =>
                   \A j \in i..k : TableIds[j] = TableIds[i]

\* a final table with a split row, a secondary and a later event group
C11_Witness ==
    /\ FinalTable
    /\ Len(TableIds) >= 3
    /\ TableIds[1] = TableIds[2]
    /\ TableIds[Len(TableIds)] > TableIds[1]
    /\ \E r \in 1..Len(data_sets_fiducial) :
           data_sets_fiducial[r].n_interaction > 1

\* the run has failed on the spectrum name
SpectrumError ==
    /\ gen.name \in {"surface", "cylinder"}
    /\ ~SpectrumImplemented(gen.spectrum)
    /\ pc = "crash"

\* C12: for a spectrum name that is not implemented the generator fails
\* before it has sampled azimuths, zeniths, vertex positions or flavors, and
\* it writes no file.
C12_SpectrumErrorBeforeSampling ==
    SpectrumError => (data_sets = <<>> /\ files = <<>>)

\* the part of C12 the generators meet: the run fails and writes no file
SpectrumErrorWritesNothing ==
    (gen.name \in {"surface", "cylinder"} /\ ~SpectrumImplemented(gen.spectrum))
        => (pc \in {"sample", "crash"} /\ files = <<>>)

\* --------------------------- properties of generate_vertex_positions
VertexCall == gen.name = "vertex"

IsCylinderVolume == "fiducial_rmax" \in DOMAIN gen.volume

IsBoxVolume == ~IsCylinderVolume /\ "fiducial_xmax" \in DOMAIN gen.volume

HasFullKeys == \E k \in DOMAIN gen.volume :
                  k \in {"full_rmin", "full_rmax", "full_xmin", "full_xmax",
                         "full_ymin", "full_ymax", "full_zmin", "full_zmax"}

\* the call of generate_vertex_positions has ended
VertexEnded == VertexCall /\ pc # "vertex"

VertexReturned == VertexCall /\ pc = "vertices"

\* C13: a volume with neither fiducial_rmax nor fiducial_xmax ends the run
\* in an error, and no file is written.
C13_NoVolumeKeysFails ==
    (VertexEnded /\ ~IsCylinderVolume /\ ~IsBoxVolume) =>
        (pc = "crash" /\ files = <<>> /\ data_sets = <<>>)

\* a call with neither key has failed
C13_Witness ==
    /\ VertexEnded
    /\ ~IsCylinderVolume /\ ~IsBoxVolume
    /\ pc = "crash"
    /\ "fiducial_zmin" \in DOMAIN gen.volume

\* the bounds recorded in the attributes are the fiducial bounds
ResolvedIsFiducial ==
    IF IsCylinderVolume
    THEN /\ attributes["rmin"] = attributes["fiducial_rmin"]
         /\ attributes["rmax"] = attributes["fiducial_rmax"]
         /\ attributes["zmin"] = attributes["fiducial_zmin"]
         /\ attributes["zmax"] = attributes["fiducial_zmax"]
    ELSE /\ attributes["xmin"] = attributes["fiducial_xmin"]
         /\ attributes["xmax"] = attributes["fiducial_xmax"]
         /\ attributes["ymin"] = attributes["fiducial_ymin"]
         /\ attributes["ymax"] = attributes["fiducial_ymax"]
         /\ attributes["zmin"] = attributes["fiducial_zmin"]
         /\ attributes["zmax"] = attributes["fiducial_zmax"]

\* C14: without proposal, for a cylinder and for a box, the call returns
\* n_events vertices and records the fiducial bounds as the resolved bounds.
C14_NoProposalFiducial ==
    (VertexEnded /\ ~gen.proposal /\ (IsCylinderVolume \/ IsBoxVolume)) =>
        /\ pc = "vertices"
        /\ Len(data_sets) = gen.n_events
        /\ ResolvedIsFiducial

\* the part of C14 the code meets: the box
BoxNoProposalFiducial == IsBoxVolume => C14_NoProposalFiducial

\* C15: for a cylinder with proposal and no full_* keys the call returns, the
\* recorded rmax exceeds fiducial_rmax, and the number of vertices is
\* n_events * floor((rmax / fiducial_rmax)^2 * zmin / fiducial_zmin).
C15_CylinderInflated ==
    (VertexEnded /\ gen.proposal /\ IsCylinderVolume /\ ~HasFullKeys) =>
        /\ pc = "vertices"
        /\ attributes["rmax"] > attributes["fiducial_rmax"]
        /\ Len(data_sets) =
               gen.n_events *
                   ((attributes["rmax"] * attributes["rmax"] * attributes["zmin"])
                    \div (attributes["fiducial_rmax"] * attributes["fiducial_rmax"]
                          * attributes["fiducial_zmin"]))

\* the fiducial volume of the box, from the volume argument
FiducialBoxVolume ==
    (gen.volume["fiducial_xmax"] - gen.volume["fiducial_xmin"])
    * (gen.volume["fiducial_ymax"] - gen.volume["fiducial_ymin"])
    * (gen.volume["fiducial_zmax"] - gen.volume["fiducial_zmin"])

ResolvedBoxVolume ==
    (attributes["xmax"] - attributes["xmin"])
    * (attributes["ymax"] - attributes["ymin"])
    * (attributes["zmax"] - attributes["zmin"])

\* the resolved bounds are the fiducial bounds moved out by the range, but
\* for zmax
BoxMovedOut ==
    LET range == Tau95Length(gen.Emax)
    IN  /\ attributes["xmin"] = gen.volume["fiducial_xmin"] - range
        /\ attributes["xmax"] = gen.volume["fiducial_xmax"] + range
        /\ attributes["ymin"] = gen.volume["fiducial_ymin"] - range
        /\ attributes["ymax"] = gen.volume["fiducial_ymax"] + range
        /\ attributes["zmin"] = gen.volume["fiducial_zmin"] - range
        /\ attributes["zmax"] = gen.volume["fiducial_zmax"]

BoxIsFull ==
    /\ attributes["xmin"] = gen.volume["full_xmin"]
    /\ attributes["xmax"] = gen.volume["full_xmax"]
    /\ attributes["ymin"] = gen.volume["full_ymin"]
    /\ attributes["ymax"] = gen.volume["full_ymax"]
    /\ attributes["zmin"] = gen.volume["full_zmin"]
    /\ attributes["zmax"] = gen.volume["full_zmax"]

\* C16: for a box with proposal the resolved bounds are the fiducial bounds
\* moved out by the range (zmax unchanged) if no full_* keys are given, and
\* the full_* values if they are; the number of vertices is
\* n_events * floor(full volume / fiducial volume).
C16_BoxInflated ==
    (VertexEnded /\ gen.proposal /\ IsBoxVolume) =>
        /\ pc = "vertices"
        /\ IF HasFullKeys THEN BoxIsFull ELSE BoxMovedOut
        /\ Len(data_sets) =
               gen.n_events * (ResolvedBoxVolume \div FiducialBoxVolume)

\* the part of C16 the code meets: no full_* keys
BoxInflatedWithoutFullKeys == ~HasFullKeys => C16_BoxInflated

\* C17: whenever the call returns, the resolved region recorded in the
\* attributes contains the fiducial region on every axis.
C17_FullContainsFiducial ==
    VertexReturned =>
        IF IsCylinderVolume
        THEN /\ attributes["rmin"] <= attributes["fiducial_rmin"]
             /\ attributes["rmax"] >= attributes["fiducial_rmax"]
             /\ attributes["zmin"] <= attributes["fiducial_zmin"]
             /\ attributes["zmax"] >= attributes["fiducial_zmax"]
        ELSE /\ attributes["xmin"] <= attributes["fiducial_xmin"]
             /\ attributes["xmax"] >= attributes["fiducial_xmax"]
             /\ attributes["ymin"] <= attributes["fiducial_ymin"]
             /\ attributes["ymax"] >= attributes["fiducial_ymax"]
             /\ attributes["zmin"] <= attributes["fiducial_zmin"]
             /\ attributes["zmax"] >= attributes["fiducial_zmax"]

\* a call has returned with a region larger than the fiducial box
C17_Witness ==
    /\ VertexReturned
    /\ gen.proposal
    /\ attributes["xmin"] < attributes["fiducial_xmin"]
    /\ attributes["zmin"] < attributes["fiducial_zmin"]
    /\ Len(data_sets) > gen.n_events

\* --------------------------------- properties of repeated writer calls
\* what the claim compares of a file
ShardMetadata(f) ==
    [name |-> f.name, start_index |-> f.start_index,
     stop_index |-> f.stop_index, n_events |-> f.attrs["n_events"],
     total_number_of_events |-> f.attrs["total_number_of_events"]]

MetadataOf(fs) == [j \in 1..Len(fs) |-> ShardMetadata(fs[j])]

\* C18: a call of write_events_to_hdf5 that follows an earlier call on the
\* same table, attributes, n_events_per_file and start_file_id writes as many
\* files with the same names, row ranges, n_events and
\* total_number_of_events: nothing an earlier call leaves behind changes it.
C18_WriterDeterministic ==
    Returned =>
        \A c \in 1..Len(earlier) : MetadataOf(earlier[c]) = MetadataOf(files)

\* a second call has written several files after the first call has added
\* start_event_id to the attributes
C18_Witness ==
    /\ Returned
    /\ Len(earlier) = 1
    /\ Len(files) >= 2
    /\ Len(earlier[1]) >= 2
    /\ "start_event_id" \notin DOMAIN call.attributes

\* ------------------------------- properties of ARZ.get_shower_profile
\* the earlier requests for the type of request k that used a profile
EarlierSameType(k) ==
    {j \in 1..(k - 1) :
        /\ requests[j].shower_type = requests[k].shower_type
        /\ requests[j].used # <<>>}

Latest(S) == CHOOSE j \in S : \A i \in S : i <= j

\* request k asks for the shower of the last request of its type
AsksSameShower(k) ==
    /\ requests[k].iN = <<>>
    /\ requests[k].same_shower
    /\ requests[k].used # <<>>

\* C19: a request with iN = None and same_shower = True for type T uses the
\* profile index of the most recent earlier request for T, whether that index
\* was drawn or passed by the caller.
C19_SameShowerUsesLastRequest ==
    \A k \in 1..Len(requests) :
        (AsksSameShower(k) /\ EarlierSameType(k) # {}) =>
            requests[k].used = requests[Latest(EarlierSameType(k))].used

\* the part of C19 the code meets: the index used is the one stored for the
\* type, that of the last request for it that drew one
SameShowerUsesStored ==
    LET k == Len(requests)
    IN  (k > 0 /\ AsksSameShower(k)) =>
            requests[k].used = <<random_numbers[requests[k].shower_type]>>

\* a generator is between sampling and the call of write_events_to_hdf5
BuildingTable ==
    /\ gen.name \in {"surface", "cylinder"}
    /\ pc \in {"sample", "em_split", "expand", "expanded"}

\* C20: in the final table of either generator shower_ids[j] = j for every
\* row j (0-based), and no row carries a shower id before every row of the
\* table (copies, secondaries, parent copies, placeholder) is fixed.
C20_ShowerIdsDense ==
    /\ FinalTable =>
           \A j \in 1..Len(data_sets_fiducial) :
               data_sets_fiducial[j].shower_ids = j - 1
    /\ BuildingTable =>
           \A j \in 1..Len(data_sets_fiducial) :
               "shower_ids" \notin DOMAIN data_sets_fiducial[j]

\* a final table in which a secondary follows the copy of a parent that
\* lies outside the fiducial volume, behind the rows of an earlier group
C20_Witness ==
    /\ FinalTable
    /\ gen.name = "cylinder"
    /\ \E j \in 2..(Len(data_sets_fiducial) - 1) :
           /\ data_sets_fiducial[j].n_interaction = 1
           /\ data_sets_fiducial[j].xx = 9
           /\ data_sets_fiducial[j + 1].n_interaction = 2
           /\ data_sets_fiducial[j + 1].shower_ids = j
           /\ data_sets_fiducial[j + 1].event_group_ids =
                  data_sets_fiducial[j].event_group_ids

\* the final table of generate_surface_muons is the placeholder row
C20_PlaceholderWitness ==
    /\ FinalTable
    /\ gen.name = "surface"
    /\ Len(data_sets_fiducial) = 1
    /\ data_sets_fiducial[1].flavors = 14
    /\ data_sets_fiducial[1].shower_ids = 0

\* ------------------------------------------------ the expansion, C21-C24
\* a pass of the loop of generate_eventlist_cylinder over row iE that ends
ExpansionStep ==
    /\ pc = "expand"
    /\ gen.name = "cylinder"
    /\ iE' = iE + 1

\* the rows the pass has appended to the final table
AddedRows ==
    SubSeq(data_sets_fiducial', Len(data_sets_fiducial) + 1,
           Len(data_sets_fiducial'))

\* the pass has called the propagator
PropagatorCalled == Len(propagator_calls') = Len(propagator_calls) + 1

\* the products the propagator has returned to the pass
ReturnedProducts == propagator_calls'[Len(propagator_calls')].products

\* the product lies in the fiducial cylinder
ProductInFiducial(row, product) ==
    LET p == ProductPositionTime(row, product)
    IN  InFiducial(attributes, Norm(p.x, p.y), p.z)

\* the products of a row that lie in the fiducial cylinder, in order
FiducialProducts(row, products) ==
    SelectSeq(products, LAMBDA product : ProductInFiducial(row, product))

\* the vertex of the row lies in the fiducial cylinder
VertexInFiducial(row) == InFiducial(attributes, Norm(row.xx, row.yy), row.zz)

\* C21: a muon or tau charged-current row for which the propagator returns
\* k >= 1 products inside the fiducial volume adds exactly k + 1 consecutive
\* rows to the final table, with the interaction indices 1..k+1 in the order
\* of the products; the row of index 1 is the unmodified parent, and the rows
\* behind it carry the fiducial products in order, so that a product outside
\* the fiducial volume adds no row and uses no index.
C21_ParentAndSecondaries ==
    [][ExpansionStep /\ MaskLeptons(data_sets[iE + 1]) /\ PropagatorCalled =>
           LET row == data_sets[iE + 1]
               inside == FiducialProducts(row, ReturnedProducts)
               k == Len(inside)
           IN  k >= 1 =>
                   /\ Len(AddedRows) = k + 1
                   /\ SubSeq(data_sets_fiducial', 1, Len(data_sets_fiducial)) =
                          data_sets_fiducial
                   /\ AddedRows[1] = row
                   /\ \A j \in 1..(k + 1) : AddedRows[j].n_interaction = j
                   /\ \A j \in 1..k :
                          /\ AddedRows[j + 1].flavors = inside[j].code
                          /\ AddedRows[j + 1].shower_type =
                                 inside[j].shower_type]_vars

\* the propagator has returned, for a parent outside the fiducial volume, a
\* product outside and behind it a product inside of it, and the final table
\* ends with the parent copy and the one secondary
C21_Witness ==
    /\ gen.name = "cylinder"
    /\ pc \in {"expand", "expanded"}
    /\ propagator_calls # <<>>
    /\ LET c == propagator_calls[Len(propagator_calls)]
           row == data_sets[c.iE + 1]
           n == Len(data_sets_fiducial)
       IN  /\ c.iE = iE - 1
           /\ ~VertexInFiducial(row)
           /\ Len(c.products) = 2
           /\ ~ProductInFiducial(row, c.products[1])
           /\ ProductInFiducial(row, c.products[2])
           /\ n >= 2
           /\ data_sets_fiducial[n - 1] = row
           /\ data_sets_fiducial[n].n_interaction = 2

\* the columns the claim lets a secondary row differ from its parent in
SecondaryColumns ==
    {"n_interaction", "shower_energies", "shower_type", "xx", "yy", "zz",
     "vertex_times", "inelasticity", "flavors"}

\* the rows the pass has appended for the fiducial products, in order
SecondaryRows == SubSeq(AddedRows, 2, Len(AddedRows))

\* the secondary row carries what the product gives it
CarriesProduct(secondary, row, product) ==
    LET p == ProductPositionTime(row, product)
    IN  /\ secondary.shower_energies = product.energy * InelasticityDen
        /\ secondary.shower_type = product.shower_type
        /\ secondary.xx = p.x /\ secondary.yy = p.y /\ secondary.zz = p.z
        /\ secondary.vertex_times = p.time
        /\ secondary.inelasticity = NaN
        /\ secondary.flavors = product.code

\* C22 as stated: a secondary row equals its parent in every column except
\* the interaction index, shower energy, shower class, position, vertex time,
\* inelasticity (undefined) and flavor code (the product's code); its event
\* group id, energy, zenith, azimuth and interaction channel are the
\* parent's; appending changes no row already in the table.
C22_SecondaryKeepsParent ==
    [][ExpansionStep /\ PropagatorCalled =>
           LET row == data_sets[iE + 1]
               inside == FiducialProducts(row, ReturnedProducts)
           IN  /\ SubSeq(data_sets_fiducial', 1, Len(data_sets_fiducial)) =
                      data_sets_fiducial
               /\ Len(inside) >= 1 =>
                      \A j \in 1..Len(SecondaryRows) :
                          /\ DOMAIN SecondaryRows[j] = DOMAIN row
                          /\ \A key \in (DOMAIN row) \ SecondaryColumns :
                                 SecondaryRows[j][key] = row[key]
                          /\ CarriesProduct(SecondaryRows[j], row, inside[j])]_vars

\* C22, amended: a secondary row equals its parent in every column except
\* the interaction index, shower energy, shower class, position, vertex time,
\* inelasticity (undefined), flavor code (the product's code) and interaction
\* channel, which is set to the shower class of the product; its event group
\* id, energy, zenith and azimuth are the parent's; appending changes no row
\* already in the table.
C22_SecondaryKeepsParentButChannel ==
    [][ExpansionStep /\ PropagatorCalled =>
           LET row == data_sets[iE + 1]
               inside == FiducialProducts(row, ReturnedProducts)
           IN  /\ SubSeq(data_sets_fiducial', 1, Len(data_sets_fiducial)) =
                      data_sets_fiducial
               /\ Len(inside) >= 1 =>
                      \A j \in 1..Len(SecondaryRows) :
                          /\ DOMAIN SecondaryRows[j] = DOMAIN row
                          /\ \A key \in (DOMAIN row) \
                                 (SecondaryColumns \cup {"interaction_type"}) :
                                 SecondaryRows[j][key] = row[key]
                          /\ SecondaryRows[j].interaction_type =
                                 inside[j].shower_type
                          /\ CarriesProduct(SecondaryRows[j], row, inside[j])]_vars

\* the last row of the table is the secondary of a product one step along
\* the track of a charged-current parent, appended behind rows of an earlier
\* group
C22_Witness ==
    /\ gen.name = "cylinder"
    /\ pc \in {"expand", "expanded"}
    /\ propagator_calls # <<>>
    /\ LET c == propagator_calls[Len(propagator_calls)]
           row == data_sets[c.iE + 1]
           n == Len(data_sets_fiducial)
       IN  /\ c.iE = iE - 1
           /\ c.iE >= 1
           /\ n >= 3
           /\ data_sets_fiducial[n].n_interaction >= 2
           /\ data_sets_fiducial[n].interaction_type = "em"
           /\ data_sets_fiducial[n].event_group_ids = row.event_group_ids
           /\ data_sets_fiducial[n].xx # row.xx
           /\ data_sets_fiducial[1].event_group_ids # row.event_group_ids

\* the loop of generate_eventlist_cylinder with proposal is at or behind
\* row iE
Expanding ==
    /\ gen.name = "cylinder"
    /\ gen.proposal
    /\ pc \in {"expand", "expanded"}

\* the positions of the table built that hold an unmodified copy of row
CopiesOf(row) ==
    {j \in 1..Len(data_sets_fiducial) : data_sets_fiducial[j] = row}

\* the positions of the table built that hold a secondary derived from row
SecondariesOf(row) ==
    {j \in 1..Len(data_sets_fiducial) :
        /\ data_sets_fiducial[j].event_group_ids = row.event_group_ids
        /\ data_sets_fiducial[j].n_interaction >= 2}

\* the propagator has returned for row i (0-based) a product in the
\* fiducial volume
HasFiducialSecondary(i) ==
    \E c \in Range(propagator_calls) :
        /\ c.iE = i
        /\ FiducialProducts(data_sets[i + 1], c.products) # <<>>

\* C23: with the propagator enabled every baseline row the loop has passed
\* whose vertex lies in the fiducial volume is in the table exactly once as
\* an unmodified copy, before every secondary derived from it; a row whose
\* vertex is outside and that has no secondary in the fiducial volume has no
\* row in the table.
C23_FiducialParentOnce ==
    Expanding =>
        \A i \in 1..iE :
            LET row == data_sets[i]
            IN  /\ VertexInFiducial(row) =>
                       /\ Cardinality(CopiesOf(row)) = 1
                       /\ \A j \in CopiesOf(row), s \in SecondariesOf(row) :
                              j < s
                /\ (~VertexInFiducial(row) /\ ~HasFiducialSecondary(i - 1)) =>
                       \A j \in 1..Len(data_sets_fiducial) :
                           data_sets_fiducial[j].event_group_ids #
                               row.event_group_ids

\* the loop has ended; the first row lies in the fiducial volume and is
\* followed by its secondary, and the propagator has returned for the second
\* row, which lies outside, only a product outside
C23_Witness ==
    /\ Expanding
    /\ pc = "expanded"
    /\ Len(data_sets) = 2
    /\ VertexInFiducial(data_sets[1])
    /\ HasFiducialSecondary(0)
    /\ ~VertexInFiducial(data_sets[2])
    /\ \E c \in Range(propagator_calls) : c.iE = 1 /\ c.products # <<>>
    /\ ~HasFiducialSecondary(1)
    /\ Len(data_sets_fiducial) = 2

\* C24: generate_eventlist_cylinder calls the propagator at most once for a
\* baseline row, and only for rows of channel 'cc' with |flavor| in {14, 16},
\* never for neutral-current or electron rows, and only where the
\* intersection test is true; it hands over the energy
\* (1 - inelasticity) * energy and the code 13, -13, 15, -15 for the flavor
\* 14, -14, 16, -16.
C24_PropagatorCalls ==
    gen.name = "cylinder" =>
        /\ \A a, b \in 1..Len(propagator_calls) :
               propagator_calls[a].iE = propagator_calls[b].iE => a = b
        /\ \A a \in 1..Len(propagator_calls) :
               LET c == propagator_calls[a]
                   row == data_sets[c.iE + 1]
               IN  /\ c.iE < iE
                   /\ row.interaction_type = "cc"
                   /\ row.flavors \in {14, -14, 16, -16}
                   /\ GetIntersectionVolumeNeutrino(attributes, FALSE)
                   /\ c.energy =
                          (InelasticityDen - row.inelasticity) * row.energies
                   /\ c.code = (CASE row.flavors = 14 -> 13
                                  [] row.flavors = -14 -> -13
                                  [] row.flavors = 16 -> 15
                                  [] row.flavors = -16 -> -15)
                   /\ c.position = <<row.xx, row.yy, row.zz>>

\* the loop has ended over a neutral-current muon neutrino and a
\* charged-current tau antineutrino, with the one call for the second
C24_Witness ==
    /\ gen.name = "cylinder"
    /\ pc = "expanded"
    /\ Len(data_sets) = 2
    /\ data_sets[1].flavors = 14 /\ data_sets[1].interaction_type = "nc"
    /\ data_sets[2].flavors = -16 /\ data_sets[2].interaction_type = "cc"
    /\ Len(propagator_calls) = 1
    /\ propagator_calls[1].iE = 1
    /\ propagator_calls[1].code = -15
    /\ propagator_calls[1].energy = (InelasticityDen - 1) * 4

\* ------------------------------------------- the shard counts, C25-C28
RECURSIVE SumNEvents(_)
\* the sum of the n_events attributes of the files
SumNEvents(fs) ==
    IF fs = <<>> THEN 0
    ELSE fs[1].attrs["n_events"] + SumNEvents(Tail(fs))

\* C25: for a table with non-decreasing ids in
\* [start_event_id, start_event_id + n_events) and every K >= 1 the n_events
\* attributes of the files of one call sum to total_number_of_events.
C25_NEventsSumToTotal ==
    (Returned /\ IdsInRange) => SumNEvents(files) = CallTotal

\* the same for the calls in which every row is written
NEventsSumToTotalWhenAllWritten ==
    (Returned /\ IdsInRange /\ Len(files) >= 1
        /\ files[Len(files)].stop_index = Len(data_sets_fiducial)) =>
        SumNEvents(files) = CallTotal

\* a step of write_events_to_hdf5 that writes a file
WritesFile == pc = "loop" /\ Len(files') = Len(files) + 1

\* C26: the loop over the files stops right after writing a file whose last
\* claimed id equals the attribute n_events (the count, not an id): the call
\* returns, and no further file is opened or written.
C26_StopsAtIdEqualCount ==
    [][/\ (WritesFile /\ LastIdOf(Len(files)) = CallTotal) => pc' = "done"
       /\ (pc = "done" /\ Len(files) >= 1
              /\ LastIdOf(Len(files) - 1) = CallTotal) =>
              (files' = files /\ iFile' = iFile)]_vars

\* the call has returned behind a file whose last id equals n_events, with
\* ids of the table left unclaimed
C26_Witness ==
    /\ Returned
    /\ Len(files) >= 1
    /\ LastIdOf(Len(files) - 1) = CallTotal
    /\ IdsRemainAfter(Len(files) - 1)
    /\ iFile = Len(files) - 1

\* the first shard index that claims no id
FirstEmptyShard == CeilDiv(Len(DistinctIds), CallK)

\* C27: for every non-empty table and K >= 1 the writer terminates: the
\* shard index grows by one with every pass of the loop, the loop stops at
\* the latest at the first shard index that claims no id, and at most
\* ceil(U / K) files are written, U the number of distinct ids.
C27_WriterTerminates ==
    /\ <>Returned
    /\ [][pc = "loop" => iFile' = iFile + 1]_vars
    /\ [](pc \in {"loop", "done"} =>
              /\ iFile <= FirstEmptyShard
              /\ Len(files) <= FirstEmptyShard)

\* the call has returned at the first shard index that claims no id, behind
\* ceil(U / K) >= 2 files, the last of them smaller than K
C27_Witness ==
    /\ Returned
    /\ Len(files) = FirstEmptyShard
    /\ Len(files) >= 2
    /\ iFile = FirstEmptyShard
    /\ Len(DistinctIds) < Len(files) * CallK

\* the distinct event group ids of the rows a file holds
IdsStoredIn(f) == {TableIds[r] : r \in RowsOf(f)}

\* C28: for a table with non-decreasing ids in
\* [start_event_id, start_event_id + n_events) the n_events attribute of
\* every file is at least the number of distinct event group ids stored in
\* the file, hence at least 1.
C28_NEventsCoversStoredIds ==
    IdsInRange =>
        \A j \in 1..Len(files) :
            /\ files[j].attrs["n_events"] >= Cardinality(IdsStoredIn(files[j]))
            /\ files[j].attrs["n_events"] >= 1

\* the call has returned behind two files, of which the first stands for
\* more events than it stores ids and the last, with a start_event_id above
\* 0, for as many
C28_Witness ==
    /\ Returned
    /\ IdsInRange
    /\ CallStart > 0
    /\ Len(files) = 2
    /\ files[1].attrs["n_events"] > Cardinality(IdsStoredIn(files[1]))
    /\ files[2].attrs["n_events"] = Cardinality(IdsStoredIn(files[2]))

\* ------------------------------------------ the intersection test, C29
\* the point of the ray at the time k / TimeDen lies in the box
PointInBox(bounds, vertex, direction, k) ==
    \A i \in 1..3 :
        /\ bounds[1][i] * TimeDen <= vertex[i] * TimeDen + k * direction[i]
        /\ vertex[i] * TimeDen + k * direction[i] <= bounds[2][i] * TimeDen

\* the latest time, in units of 1 / TimeDen, a ray of the model can be in a
\* box of the model
LatestTime == 6 * TimeDen

\* some point origin + t * direction with t >= 0 lies in the box; the times
\* a ray enters and leaves a box of the model are multiples of 1 / TimeDen
RayMeetsBox(bounds, vertex, direction) ==
    \E k \in 0..LatestTime : PointInBox(bounds, vertex, direction, k)

\* get_intersection_volume_neutrino has returned for a box
BoxRayReturned ==
    /\ gen.name = "get_intersection_volume_neutrino"
    /\ pc = "returned"
    /\ "xmax" \in DOMAIN attributes

\* C29: for every axis-aligned box and every ray with no zero direction
\* component the test is true exactly if some point origin + t * direction
\* with t >= 0 lies in the box; it is false if the box lies behind the origin.
C29_BoxRayIffMeets ==
    BoxRayReturned =>
        (returned[1] <=>
            RayMeetsBox(FiducialBounds(attributes), gen.vertex, gen.direction))

\* ------------------------------------------------ the power law, C30
\* get_energies has ended for a name 'E-<gamma>' with gamma + 1 = 0
DegenerateExponentEnded ==
    /\ gen.name = "get_energies"
    /\ gen.spectrum_type \in PowerLawSpectra
    /\ PowerLawExponent(gen.spectrum_type) + 1 = 0
    /\ pc # "energies"

\* C30: get_energies called with a power-law name 'E-<gamma>' whose exponent
\* makes the normalization degenerate (gamma + 1 = 0, as for 'E-1') fails
\* with an error and returns no energies.
C30_DegenerateExponentFails ==
    DegenerateExponentEnded => (pc = "crash" /\ returned = <<>>)

\* the part of C30 the code meets: for every other power law of the model
\* the energies returned lie in [Emin, Emax]
PowerLawEnergiesInRange ==
    (/\ gen.name = "get_energies"
     /\ gen.spectrum_type \in PowerLawSpectra
     /\ PowerLawExponent(gen.spectrum_type) + 1 # 0
     /\ pc # "energies") =>
        /\ pc = "returned"
        /\ Len(returned) = gen.n_events
        /\ \A i \in 1..Len(returned) :
               gen.Emin <= returned[i] /\ returned[i] <= gen.Emax

====
